---- MODULE Spec2Model ----
(***************************************************************************)
(* Model of the Ambulatory Surgical Center pricer of Myelin:                *)
(*   - AscClient.process and its helpers (_process_line, _mue_check, the    *)
(*     ancillary gate and the final summation) in pricers/asc/client.py;    *)
(*   - AscReferenceData (quarter resolution, preload, in-memory cache) in   *)
(*     pricers/asc/data_loader.py.                                          *)
(*                                                                          *)
(* Decimal values are modelled as exact non-negative rationals <<n, d>>     *)
(* in lowest terms (dollars); amounts that the code quantizes to cents are  *)
(* integers (cents).  The float fields of the outputs hold short decimals   *)
(* in every modelled input, for which float(Decimal) and Decimal(str(x))    *)
(* are exact; they are kept in their decimal form.                          *)
(***************************************************************************)
EXTENDS Integers, Sequences, FiniteSets, TLC

VARIABLES
    claim,                \* the Claim given to AscClient.process
    opsf_provider,        \* the optional OPSFProvider argument
    mues,                 \* the optional HCPCS -> AscMueLimit map
    output,               \* the AscOutput returned by process
    line_stages,          \* process's local calculated_lines after steps 4, 5, 5b
    device_available_units, \* process's local device unit budget, as last left
    earlier,              \* the outputs this client returned, by the call's inputs
    calls,                \* number of this client's calls recorded in earlier
    pc,                   \* position of the pricing call
    store,                \* quarter directories on disk under data_dir
    disk,                 \* the files of each quarter directory
    clock,                \* the time on the filesystem clock
    available_quarters,   \* AscReferenceData._available_quarters
    cache,                \* AscReferenceData._cache (path -> bundle)
    request,              \* last date passed to get_data
    path_taken,           \* the path of _find_quarter_directory in that call
    result,               \* what that call returned or raised
    last_load,            \* where the loader's last step took its bundle from
    callers               \* the frame of each concurrent caller of get_data

vars == <<claim, opsf_provider, mues, output, line_stages,
          device_available_units, earlier, calls, pc,
          store, disk, clock, available_quarters, cache, request,
          path_taken, result, last_load, callers>>

pricerVars == <<claim, opsf_provider, mues, output, line_stages,
                device_available_units, earlier, calls, pc>>
loaderVars == <<store, disk, clock, available_quarters, cache, request,
                path_taken, result, last_load, callers>>

None == "None"

-----------------------------------------------------------------------------
(* Bounds of the model *)

MaxLines == 3        \* lines per claim
MaxUnits == 3        \* billed units per line in the MUE inputs
MaxPayUnits == 2     \* billed units per line in the payment inputs
MaxLimit == 4        \* largest MUE limit
MaxCalls == 3        \* pricing calls given to one client
MaxClock == 3        \* the filesystem clock stops here
NumCallers == 3      \* the callers of get_data that run concurrently
MaxCharge == 12      \* largest submitted charge, in cents, of the split inputs

-----------------------------------------------------------------------------
(* Decimal arithmetic *)

RECURSIVE GCD(_, _)
GCD(a, b) == IF b = 0 THEN a ELSE GCD(b, a % b)

LCM(a, b) == (a \div GCD(a, b)) * b

\* the rational n/d in lowest terms (n >= 0, d > 0)
R(n, d) == LET g == GCD(n, d) IN <<n \div g, d \div g>>

Zero == <<0, 1>>
One == <<1, 1>>

RAdd(x, y) == LET l == LCM(x[2], y[2])
              IN  R(x[1] * (l \div x[2]) + y[1] * (l \div y[2]), l)

RLess(x, y) == LET l == LCM(x[2], y[2])
               IN  x[1] * (l \div x[2]) < y[1] * (l \div y[2])

RLeq(x, y) == ~RLess(y, x)

RMin(x, y) == IF RLess(y, x) THEN y ELSE x

\* max(0, x - y)
RSubFloor(x, y) ==
    IF RLeq(x, y) THEN Zero
    ELSE LET l == LCM(x[2], y[2])
         IN  R(x[1] * (l \div x[2]) - y[1] * (l \div y[2]), l)

RMul(x, y) == LET g1 == GCD(x[1], y[2])
                  g2 == GCD(y[1], x[2])
              IN  <<(x[1] \div g1) * (y[1] \div g2),
                    (x[2] \div g2) * (y[2] \div g1)>>

RDivInt(x, k) == R(x[1], x[2] * k)

RInt(k) == <<k, 1>>

Cents(c) == R(c, 100)

\* Decimal.quantize(Decimal("0.01")) under the default context
\* (ROUND_HALF_EVEN); the result is the number of cents
Quantize(x) ==
    LET n == x[1] * 100
        q == n \div x[2]
        r == n % x[2]
    IN  IF 2 * r < x[2] THEN q
        ELSE IF 2 * r > x[2] THEN q + 1
        ELSE IF q % 2 = 0 THEN q ELSE q + 1

-----------------------------------------------------------------------------
(* Dates *)

Date(y, m, d) == [year |-> y, month |-> m, day |-> d]

\* the value None of an Optional[datetime]
NoDate == Date(0, 0, 0)

\* the order of datetime values (all modelled datetimes are at midnight)
DateNum(dt) == dt.year * 10000 + dt.month * 100 + dt.day

-----------------------------------------------------------------------------
(* Constants of client.py *)

DENY_INDICATORS == {"C5", "M6", "U5", "X5", "E5", "Y5", "K5"}
DENY_PACKAGED_INDICATORS == {"L1", "NI", "S1", "D1"}
UNPROCESSABLE_INDICATORS == {"D5", "B5"}
WAGE_EXEMPT_INDICATORS == {"H2", "J7", "K2", "K7", "F4", "L6"}

MOD_TERMINATED_PRE_ANESTHESIA == "73"
MOD_TERMINATED_POST_ANESTHESIA == "74"
MOD_REDUCED_PROCEDURE == "52"
MOD_DEVICE_NO_COST == "FB"
MOD_DEVICE_PARTIAL_CREDIT == "FC"

_HALF == <<1, 2>>
_COPAY_RATE == <<1, 5>>
_PAYMENT_RATE == RSubFloor(One, _COPAY_RATE)

-----------------------------------------------------------------------------
(* The reference bundle the pricing calls run against (AscRefData).         *)
(* HCPCS codes are held upper-case and stripped, so hcpcs.upper().strip()   *)
(* is the code itself; the codes that start with "C" are listed.            *)

StartsWithC == {"C1234", "C5678"}

RateInfo(rate, ind, disc, add) ==
    [rate |-> rate, indicator |-> ind, subject_to_discount |-> disc,
     addendum |-> add]

RefRates ==
    [h \in {"10001", "10002", "10003", "10004", "20001", "30001", "40001",
            "C1234", "C5678", "90999"} |->
        CASE h = "10001" -> RateInfo(Cents(10003), "A2", TRUE, "AA")
          [] h = "10004" -> RateInfo(Cents(10000), "A2", TRUE, "AA")
          [] h = "10002" -> RateInfo(Cents(20000), "G2", FALSE, "AA")
          [] h = "10003" -> RateInfo(Cents(5005), "A2", TRUE, "AA")
          [] h = "20001" -> RateInfo(Zero, "C5", FALSE, "AA")
          [] h = "30001" -> RateInfo(Zero, "NI", FALSE, "AA")
          [] h = "40001" -> RateInfo(Cents(1000), "D5", FALSE, "AA")
          [] h = "C1234" -> RateInfo(Cents(5001), "J7", FALSE, "BB")
          [] h = "C5678" -> RateInfo(Cents(3000), "J7", FALSE, "BB")
          [] h = "90999" -> RateInfo(Cents(7500), "Z2", TRUE, "BB")]

RefDeviceOffsets == [h \in {"10001", "10004"} |-> Cents(2000)]

RefWageIndices ==
    [c \in {"10000", "35614"} |->
        IF c = "10000" THEN One ELSE <<3, 2>>]

\* code pair entries; a date of 0 is the empty string (open-ended) and a
\* negative date is a string strptime rejects
CodePairEntry(mult, eff, end) ==
    [percent_multiplier |-> mult, effective_date |-> eff, end_date |-> end]

RefCodePairs ==
    [k \in {<<"C1234", "10001">>, <<"C1234", "10003">>,
            <<"C5678", "10001">>} |->
        IF k = <<"C1234", "10001">>
        THEN << CodePairEntry(<<1, 2>>, 20200101, 20201231),
                CodePairEntry(<<1, 4>>, 20250101, 0) >>
        ELSE << CodePairEntry(<<1, 10>>, 20250101, 0) >>]

RefData ==
    [rates |-> RefRates, device_offsets |-> RefDeviceOffsets,
     wage_indices |-> RefWageIndices, code_pairs |-> RefCodePairs]

-----------------------------------------------------------------------------
(* AscLineOutput and AscOutput *)

AscLineOutput(line_number, hcpcs, units) ==
    [line_number |-> line_number, hcpcs |-> hcpcs,
     payment_indicator |-> "", payment_rate |-> Zero, wage_index |-> Zero,
     adjusted_rate |-> Zero, units |-> units,
     device_offset_amount |-> Zero, device_credit |-> FALSE,
     code_pair_offset |-> Zero, code_pair_device |-> "",
     status |-> "", status_reason |-> "",
     subject_to_discount |-> FALSE, discount_applied |-> FALSE,
     line_payment |-> 0, line_copayment |-> 0, line_total |-> 0]

AscOutput ==
    [cbsa |-> "", wage_index |-> Zero, lines |-> << >>,
     total_payment |-> 0, total_copayment |-> 0, total |-> 0,
     error |-> None, message |-> None]

\* the status_reason texts, by kind
ReasonIndicator == "Indicator: per CMS 60.3"
ReasonMueAll == "MUE exceeded (all units denied)"
ReasonMueExcess == "MUE exceeded (excess denied)"
ReasonMuePartial == "MUE partial"
ReasonNoSurgical == "No related surgical procedure on claim (CMS 60.2)"

-----------------------------------------------------------------------------
(* AscClient._get_code_pair_offset *)

\* does the claim date fall in the entry's date range (ValueError: skip)
EntryValidOn(entry, claim_date) ==
    LET eff == entry.effective_date
        end == entry.end_date
        cd == DateNum(claim_date)
    IN  IF eff < 0 \/ end < 0 THEN FALSE
        ELSE IF eff # 0 /\ end # 0 THEN eff <= cd /\ cd <= end
        ELSE IF eff # 0 /\ cd < eff THEN FALSE
        ELSE IF end # 0 /\ cd > end THEN FALSE
        ELSE TRUE

RECURSIVE FirstValidEntry(_, _, _)
FirstValidEntry(entries, i, claim_date) ==
    IF i > Len(entries) THEN 0
    ELSE IF EntryValidOn(entries[i], claim_date) THEN i
    ELSE FirstValidEntry(entries, i + 1, claim_date)

\* <<multiplier, device>>, or <<0, "">> when no entry matches
GetCodePairOffset(procedure_hcpcs, device_hcpcs, code_pairs, claim_date) ==
    LET key == <<device_hcpcs, procedure_hcpcs>>
        entries == IF key \in DOMAIN code_pairs THEN code_pairs[key] ELSE << >>
        i == FirstValidEntry(entries, 1, claim_date)
    IN  IF i = 0 THEN <<Zero, "">>
        ELSE <<entries[i].percent_multiplier, device_hcpcs>>

-----------------------------------------------------------------------------
(* AscClient._process_line *)

\* device_available_units is a dict in insertion order: a sequence of
\* <<device code, remaining units>>

\* the first device with a positive multiplier for this procedure, with
\* units left or not
RECURSIVE FirstMatchingDeviceAnyUnits(_, _, _, _, _)
FirstMatchingDeviceAnyUnits(dau, i, hcpcs, code_pairs, claim_date) ==
    IF i > Len(dau) THEN 0
    ELSE IF RLess(Zero, GetCodePairOffset(hcpcs, dau[i][1], code_pairs,
                                          claim_date)[1])
         THEN i
    ELSE FirstMatchingDeviceAnyUnits(dau, i + 1, hcpcs, code_pairs, claim_date)

\* the first device with units left and a positive multiplier for this
\* procedure (0 when there is none)
RECURSIVE FirstMatchingDevice(_, _, _, _, _)
FirstMatchingDevice(dau, i, hcpcs, code_pairs, claim_date) ==
    IF i > Len(dau) THEN 0
    ELSE IF dau[i][2] > 0
            /\ RLess(Zero, GetCodePairOffset(hcpcs, dau[i][1], code_pairs,
                                             claim_date)[1])
         THEN i
    ELSE FirstMatchingDevice(dau, i + 1, hcpcs, code_pairs, claim_date)

\* lower-of: cap the rate at the submitted charges (cents; 0 when absent)
LowerOfCharges(rate, charges) ==
    IF charges > 0 /\ RLess(Cents(charges), rate) THEN Cents(charges) ELSE rate

\* ref_data["device_offsets"].get(hcpcs): the offset, Zero when there is none
DeviceOffsetOf(ref_data, hcpcs) ==
    IF hcpcs \in DOMAIN ref_data.device_offsets
    THEN ref_data.device_offsets[hcpcs] ELSE Zero

\* offset_amount: the part of the device offset taken off the base rate
OffsetAmount(modifiers, dev_offset) ==
    IF MOD_TERMINATED_PRE_ANESTHESIA \in modifiers
    THEN IF RLess(Zero, dev_offset) THEN dev_offset ELSE Zero
    ELSE IF dev_offset = Zero THEN Zero
    ELSE IF MOD_DEVICE_NO_COST \in modifiers THEN dev_offset
    ELSE IF MOD_DEVICE_PARTIAL_CREDIT \in modifiers
    THEN RMul(dev_offset, _HALF)
    ELSE Zero

\* device_credit: FB or FC on a line with a device offset, without modifier 73
DeviceCredit(modifiers, dev_offset) ==
    /\ MOD_TERMINATED_PRE_ANESTHESIA \notin modifiers
    /\ MOD_DEVICE_NO_COST \in modifiers
          \/ MOD_DEVICE_PARTIAL_CREDIT \in modifiers
    /\ dev_offset # Zero

\* geographic adjustment of the reduced base rate
WageAdjusted(indicator, reduced_base_rate, wage_index) ==
    IF indicator \in WAGE_EXEMPT_INDICATORS THEN reduced_base_rate
    ELSE RAdd(RMul(RMul(reduced_base_rate, _HALF), wage_index),
              RMul(reduced_base_rate, _HALF))

\* the index in dau of the device whose code pair offsets this line (0: none)
MatchingDevice(hcpcs, code_pairs, dau, claim_date) ==
    IF hcpcs \notin StartsWithC /\ Len(dau) > 0 /\ DOMAIN code_pairs # {}
    THEN FirstMatchingDevice(dau, 1, hcpcs, code_pairs, claim_date)
    ELSE 0

\* the modifier cuts, the lower-of rule and the fields set before returning
FinishLine(line_out, line, adjusted_rate, dau) ==
    LET cut == MOD_TERMINATED_PRE_ANESTHESIA \in line.modifiers
                  \/ MOD_REDUCED_PROCEDURE \in line.modifiers
    IN  [line |->
            [line_out EXCEPT
                !.subject_to_discount = IF cut THEN FALSE ELSE @,
                !.adjusted_rate =
                    LowerOfCharges(IF cut THEN RMul(adjusted_rate, _HALF)
                                   ELSE adjusted_rate,
                                   line.charges)],
         dau |-> dau]

\* the code pair offset taken from the wage-adjusted rate, for device dau[m]
WithCodePair(line_out, line, adjusted_rate, dau, m, pair) ==
    FinishLine([line_out EXCEPT
                   !.code_pair_offset = RMul(adjusted_rate, pair[1]),
                   !.code_pair_device = pair[2]],
               line,
               RSubFloor(adjusted_rate, RMul(adjusted_rate, pair[1])),
               [dau EXCEPT ![m] = <<dau[m][1], dau[m][2] - 1>>])

\* the code pair step for the first matching device m (0: none)
CodePairStep(line_out, line, adjusted_rate, code_pairs, dau, claim_date, m) ==
    IF m = 0 THEN FinishLine(line_out, line, adjusted_rate, dau)
    ELSE WithCodePair(line_out, line, adjusted_rate, dau, m,
                      GetCodePairOffset(line.hcpcs, dau[m][1], code_pairs,
                                        claim_date))

\* the payable part of _process_line (after status = "payable")
PricePayableLine(line_out, line, info, ref_data, wage_index, code_pairs, dau, claim_date) ==
    CodePairStep(
        [line_out EXCEPT
            !.status = "payable",
            !.device_credit =
                DeviceCredit(line.modifiers,
                             DeviceOffsetOf(ref_data, line.hcpcs)),
            !.device_offset_amount =
                OffsetAmount(line.modifiers,
                             DeviceOffsetOf(ref_data, line.hcpcs))],
        line,
        WageAdjusted(info.indicator,
                     RSubFloor(info.rate,
                               OffsetAmount(line.modifiers,
                                            DeviceOffsetOf(ref_data, line.hcpcs))),
                     wage_index),
        code_pairs, dau, claim_date,
        MatchingDevice(line.hcpcs, code_pairs, dau, claim_date))

\* a line returned as it was created, without the rate lookup
ProcessLineUnpriced(line, idx, ref_data, wage_index, code_pairs, dau, claim_date) ==
    [line |-> AscLineOutput(idx + 1, line.hcpcs, line.units), dau |-> dau]

\* idx is the zero-based index of the line on the claim
ProcessLine(line, idx, ref_data, wage_index, code_pairs, dau, claim_date) ==
    LET line_out == AscLineOutput(idx + 1, line.hcpcs, line.units)
    IN  IF line.hcpcs \notin DOMAIN ref_data.rates
        THEN [line |-> line_out, dau |-> dau]
        ELSE
        LET info == ref_data.rates[line.hcpcs]
            payment_ind == info.indicator
            l1 == [line_out EXCEPT
                      !.payment_indicator = payment_ind,
                      !.payment_rate = info.rate,
                      !.wage_index = wage_index,
                      !.subject_to_discount = info.subject_to_discount]
        IN  IF payment_ind \in DENY_INDICATORS
            THEN [line |-> [l1 EXCEPT !.status = "denied",
                                      !.status_reason = ReasonIndicator,
                                      !.adjusted_rate = Zero],
                  dau |-> dau]
            ELSE IF payment_ind \in DENY_PACKAGED_INDICATORS
            THEN [line |-> [l1 EXCEPT !.status = "packaged",
                                      !.status_reason = ReasonIndicator,
                                      !.adjusted_rate = Zero],
                  dau |-> dau]
            ELSE IF payment_ind \in UNPROCESSABLE_INDICATORS
            THEN [line |-> [l1 EXCEPT !.status = "unprocessable",
                                      !.status_reason = ReasonIndicator,
                                      !.adjusted_rate = Zero],
                  dau |-> dau]
            ELSE IF info.rate = Zero
            THEN [line |-> [l1 EXCEPT !.status = "packaged"], dau |-> dau]
            ELSE PricePayableLine(l1, line, info, ref_data, wage_index,
                                  code_pairs, dau, claim_date)

-----------------------------------------------------------------------------
(* AscReferenceData: quarter directories, preload, get_data *)

\* A quarter directory data_dir/<year_dir>/<name>; name is the number its
\* eight digits spell.
Dir(y, n) == [year_dir |-> y, name |-> n]

\* the value None of an Optional[str] path
NoDir == Dir(0, 0)

\* _available_quarters: None, or the list built by preload_all_data
NoIndex == [built |-> FALSE, quarters |-> << >>]
Index(quarters) == [built |-> TRUE, quarters |-> quarters]

NameYear(n) == n \div 10000
NameMonth(n) == (n \div 100) % 100
NameDay(n) == n % 100

DaysIn(y, m) ==
    IF m \in {4, 6, 9, 11} THEN 30
    ELSE IF m = 2
         THEN IF (y % 4 = 0 /\ y % 100 # 0) \/ y % 400 = 0 THEN 29 ELSE 28
    ELSE 31

\* datetime.strptime(dirname, "%Y%m%d") of an 8-digit name: the date, or
\* ValueError (FALSE here)
ParsesAsDate(n) ==
    /\ NameMonth(n) \in 1..12
    /\ NameDay(n) >= 1
    /\ NameDay(n) <= DaysIn(NameYear(n), NameMonth(n))

ParseDate(n) == Date(NameYear(n), NameMonth(n), NameDay(n))

\* the (q_date, q_dir) pairs of the directories whose name is a date
QuarterPairs(dirs) ==
    {<<ParseDate(d.name), d>> : d \in {e \in dirs : ParsesAsDate(e.name)}}

\* all_quarters.sort(key=lambda x: x[0], reverse=True)
RECURSIVE SortDescending(_)
SortDescending(pairs) ==
    IF pairs = {} THEN << >>
    ELSE LET top == CHOOSE p \in pairs :
                        \A q \in pairs : DateNum(q[1]) <= DateNum(p[1])
         IN  <<top>> \o SortDescending(pairs \ {top})

ScanAllQuarters(dirs) == SortDescending(QuarterPairs(dirs))

\* the quarter month taken from the month number without the shift by one
QuarterMonthUnshifted(dt) == (dt.month \div 3) * 3 + 1

\* first-of-quarter date of a date
QuarterMonth(dt) == ((dt.month - 1) \div 3) * 3 + 1
TargetDate(dt) == Date(dt.year, QuarterMonth(dt), 1)

\* f"{year}{quarter_month:02d}01"
TargetFolderName(dt) == dt.year * 10000 + QuarterMonth(dt) * 100 + 1

\* step 1 of the fast path finding nothing
NoExactMatch(quarters, i, target_date) == 0

RECURSIVE FirstExactMatch(_, _, _)
FirstExactMatch(quarters, i, target_date) ==
    IF i > Len(quarters) THEN 0
    ELSE IF quarters[i][1] = target_date THEN i
    ELSE FirstExactMatch(quarters, i + 1, target_date)

\* the fallback without the comparison of the date with the latest quarter
LatestAlways(quarters, dt) ==
    IF Len(quarters) > 0 THEN quarters[1][2] ELSE NoDir

\* the fallback to the latest quarter that starts at or before the date
RECURSIVE LatestNotAfter(_, _)
LatestNotAfter(quarters, dt) ==
    IF quarters = << >> THEN NoDir
    ELSE IF DateNum(quarters[1][1]) <= DateNum(dt) THEN quarters[1][2]
    ELSE LatestNotAfter(Tail(quarters), dt)

\* step 2 of both paths: the latest quarter if the date is after it
LatestIfFuture(quarters, dt) ==
    IF Len(quarters) > 0 /\ DateNum(dt) > DateNum(quarters[1][1])
    THEN quarters[1][2] ELSE NoDir

\* AscReferenceData._find_quarter_directory: a directory or NoDir (None).
\* index is _available_quarters: NoIndex (None) or Index(list)
FindQuarterDirectory(dt, index, dirs) ==
    IF index.built
    THEN \* fast path: the preloaded index
         LET i == FirstExactMatch(index.quarters, 1, TargetDate(dt))
         IN  IF i # 0 THEN index.quarters[i][2]
             ELSE LatestIfFuture(index.quarters, dt)
    ELSE \* slow path: the filesystem
         LET specific_path == Dir(dt.year, TargetFolderName(dt))
         IN  IF specific_path \in dirs THEN specific_path
             ELSE LatestIfFuture(ScanAllQuarters(dirs), dt)

_CACHE_VERSION == 2

\* The files a bundle is built from, by kind: "rates" stands for the
\* Addendum AA, BB and FF files of the quarter directory, "code_pairs" for
\* the normalized code pair file, and the wage index may live in three
\* places: "year_wage_index" is <year_dir>/wage_index.csv (or .txt),
\* "quarter_wage" a *wage*.csv or WI.csv file of the quarter directory,
\* "year_wage" another *wage*.csv or WI.csv file of the year directory.
\* Each file has a modification time and a content (a revision number).
WageKinds == {"year_wage_index", "quarter_wage", "year_wage"}
SourceKinds == {"rates", "code_pairs"} \cup WageKinds

SourceFile(mtime, content) == [mtime |-> mtime, content |-> content]

\* data.pkl: absent, or a file that unpickles (loads) or not, with its
\* modification time and the bundle pickled in it
NoPkl == [exists |-> FALSE, loads |-> FALSE, mtime |-> 0, data |-> None]
Pkl(data, mtime) ==
    [exists |-> TRUE, loads |-> TRUE, mtime |-> mtime, data |-> data]

\* The files of a quarter directory: the sources, the wage index files
\* that exist, data.pkl, whether data.pkl can be written and whether the
\* source files can be opened.
Files(src, wage_files, pkl, writable, readable) ==
    [src |-> src, wage_files |-> wage_files, pkl |-> pkl,
     writable |-> writable, readable |-> readable]

\* the wage index file a reader would take if a file of the quarter
\* directory came before every file of the year directory
WageIndexFileQuarterFirst(files) ==
    IF "quarter_wage" \in files.wage_files THEN "quarter_wage"
    ELSE IF "year_wage_index" \in files.wage_files THEN "year_wage_index"
    ELSE IF "year_wage" \in files.wage_files THEN "year_wage"
    ELSE None

\* the wage index file _load_quarter_data reads: wage_index.csv of the
\* year directory first, then a file of the quarter directory, then
\* another wage file of the year directory; None leaves the table empty
WageIndexFile(files) ==
    IF "year_wage_index" \in files.wage_files THEN "year_wage_index"
    ELSE IF "quarter_wage" \in files.wage_files THEN "quarter_wage"
    ELSE IF "year_wage" \in files.wage_files THEN "year_wage"
    ELSE None

\* the revision of the wage index table read from a file, -1 for the
\* empty table
WageIndexTable(files, wage_file) ==
    IF wage_file = None THEN -1 ELSE files.src[wage_file].content

\* the bundle _load_quarter_data builds from the source files, named by the
\* directory, by the revisions of the files it was built from and by the
\* wage index file that was read
BuildFromSources(path, files) ==
    [quarter |-> path, _cache_version |-> _CACHE_VERSION,
     wage_file |-> WageIndexFile(files),
     built_from |-> [rates |-> files.src["rates"].content,
                     code_pairs |-> files.src["code_pairs"].content,
                     wage_index |->
                         WageIndexTable(files, WageIndexFile(files))]]

\* the files whose modification time _is_cache_valid compares: the *.csv
\* and *.txt files of the quarter directory and the normalized code pair
\* files
CheckedKinds(files) ==
    {"rates", "code_pairs"} \cup ({"quarter_wage"} \cap files.wage_files)

\* the validity test without the comparison of the version tag
IsCacheValidAnyVersion(files) ==
    /\ files.pkl.exists
    /\ files.pkl.loads
    /\ \A k \in CheckedKinds(files) : ~(files.src[k].mtime > files.pkl.mtime)

\* AscReferenceData._is_cache_valid
IsCacheValid(files) ==
    /\ files.pkl.exists
    /\ files.pkl.loads
    /\ files.pkl.data._cache_version = _CACHE_VERSION
    /\ \A k \in CheckedKinds(files) : ~(files.src[k].mtime > files.pkl.mtime)

\* what a call returned or raised: a bundle, an exception, or nothing yet
NoResult == [raised |-> "NotCalled"]
FileNotFoundError == [raised |-> "FileNotFoundError"]
PermissionError == [raised |-> "PermissionError"]

Raised(ret) == ret \in {FileNotFoundError, PermissionError}

\* step 3 in which a failure to write data.pkl is raised to the caller
SaveToCacheOrRaise(data, files, now) ==
    IF files.writable
    THEN [ret |-> data, files |-> [files EXCEPT !.pkl = Pkl(data, now)]]
    ELSE [ret |-> PermissionError, files |-> files]

\* step 3 of _load_quarter_data: pickle the bundle into data.pkl, and
\* return it whether that worked or not
SaveToCache(data, files, now) ==
    [ret |-> data,
     files |-> IF files.writable THEN [files EXCEPT !.pkl = Pkl(data, now)]
               ELSE files]

\* AscReferenceData._load_quarter_data: what it returns (or raises) and the
\* files of the directory afterwards.  open() of a source file that cannot
\* be read raises PermissionError, which nothing in the loader catches.
LoadQuarterData(path, files, now) ==
    IF IsCacheValid(files) THEN [ret |-> files.pkl.data, files |-> files]
    ELSE IF ~files.readable THEN [ret |-> PermissionError, files |-> files]
    ELSE SaveToCache(BuildFromSources(path, files), files, now)

\* the tables of a bundle (every modelled quarter holds the same tables)
BundleData(bundle) == RefData

\* the loader's _cache and the files, with what a call returned or raised
LoaderState(ret, c, files) == [ret |-> ret, cache |-> c, disk |-> files]

\* self._cache[path] = data
Cached(c, path, data) ==
    [p \in DOMAIN c \cup {path} |-> IF p = path THEN data ELSE c[p]]

\* the loader after _load_quarter_data(path) answered with loaded
AfterLoad(path, c, files, loaded) ==
    IF Raised(loaded.ret) THEN LoaderState(loaded.ret, c, files)
    ELSE LoaderState(loaded.ret, Cached(c, path, loaded.ret),
                     [files EXCEPT ![path] = loaded.files])

\* the loop of preload_all_data over the quarters, which an exception ends
RECURSIVE LoadAll(_, _, _, _)
LoadAll(quarters, i, state, now) ==
    IF i > Len(quarters) \/ Raised(state.ret) THEN state
    ELSE LoadAll(quarters, i + 1,
                 AfterLoad(quarters[i][2], state.cache, state.disk,
                           LoadQuarterData(quarters[i][2],
                                           state.disk[quarters[i][2]], now)),
                 now)

\* get_data once _find_quarter_directory has answered
GetDataFrom(target_path, c, files, now) ==
    IF target_path = NoDir
    THEN LoaderState(FileNotFoundError, c, files)
    ELSE IF target_path \in DOMAIN c
    THEN LoaderState(c[target_path], c, files)
    ELSE AfterLoad(target_path, c, files,
                   LoadQuarterData(target_path, files[target_path], now))

\* The callers that use one loader concurrently.  Nothing in the loader
\* takes a lock, so a call of get_data is the sequence of its accesses to
\* the loader's _cache and to data.pkl, and the accesses of several callers
\* interleave.  A frame holds the position of a caller in get_data, the
\* bundle it has in hand, what it returned or raised, and where a read of
\* data.pkl failed for it ("check": in _is_cache_valid, "load": in the
\* load after the check).
Callers == 1..NumCallers

NewFrame ==
    [pc |-> "idle", data |-> NoResult, ret |-> NoResult, fallback |-> "none"]

\* the exception of pickle.load on a file that is not a whole pickle
UnpicklingError == [raised |-> "UnpicklingError"]

\* data.pkl just after open(cache_path, "wb"): truncated, nothing dumped
Truncated(now) ==
    [exists |-> TRUE, loads |-> FALSE, mtime |-> now, data |-> NoResult]

\* the callers between open(cache_path, "wb") and the end of pickle.dump
Writers(frames) == {t \in DOMAIN frames : frames[t].pc = "dump"}

\* What pickle.load of data.pkl can give.  While a write is in progress
\* the reader races with the writer: it meets a file that is not a whole
\* pickle, or the writer gets ahead of it and it reads the whole bundle
\* being dumped.
ReadOutcomes(pkl, frames) ==
    IF Writers(frames) # {}
    THEN {UnpicklingError} \cup {frames[w].data : w \in Writers(frames)}
    ELSE IF pkl.loads THEN {pkl.data}
    ELSE {UnpicklingError}

\* get_data up to the look into self._cache
EnterGetData(frame, target_path, c) ==
    IF target_path = NoDir
    THEN [frame EXCEPT !.pc = "done", !.ret = FileNotFoundError]
    ELSE IF target_path \in DOMAIN c
    THEN [frame EXCEPT !.pc = "done", !.ret = c[target_path]]
    ELSE [frame EXCEPT !.pc = "exists"]

\* _is_cache_valid: os.path.exists(cache_path)
CheckExists(frame, pkl) ==
    [frame EXCEPT !.pc = IF pkl.exists THEN "version" ELSE "build"]

\* _is_cache_valid: the version tag of the pickle that was read; an
\* exception of the read makes the cache invalid
CheckVersion(frame, outcome) ==
    IF outcome = UnpicklingError
    THEN [frame EXCEPT !.pc = "build", !.fallback = "check"]
    ELSE IF outcome._cache_version # _CACHE_VERSION
    THEN [frame EXCEPT !.pc = "build"]
    ELSE [frame EXCEPT !.pc = "mtime"]

\* _is_cache_valid: os.path.getmtime(cache_path) against the files
CheckMtimes(frame, files) ==
    [frame EXCEPT !.pc =
        IF \A k \in CheckedKinds(files) :
               ~(files.src[k].mtime > files.pkl.mtime)
        THEN "read" ELSE "build"]

\* a load from data.pkl that lets the exception of pickle.load out
LoadFromCacheOrRaise(frame, outcome) ==
    IF outcome = UnpicklingError
    THEN [frame EXCEPT !.pc = "done", !.ret = UnpicklingError]
    ELSE [frame EXCEPT !.pc = "store", !.data = outcome]

\* step 1 of _load_quarter_data once the cache was found valid: return
\* the pickle, or ignore a pickle that cannot be read and load the sources
LoadFromCache(frame, outcome) ==
    IF outcome = UnpicklingError
    THEN [frame EXCEPT !.pc = "build", !.fallback = "load"]
    ELSE [frame EXCEPT !.pc = "store", !.data = outcome]

\* step 2 of _load_quarter_data
LoadFromSources(frame, path, files) ==
    IF ~files.readable
    THEN [frame EXCEPT !.pc = "done", !.ret = PermissionError]
    ELSE [frame EXCEPT !.pc = "open_w", !.data = BuildFromSources(path, files)]

\* get_data: self._cache[target_path] = data; return data
ReturnData(frame) == [frame EXCEPT !.pc = "done", !.ret = frame.data]

\* where get_data takes the bundle of target_path from: the loader's
\* _cache ("memory"), data.pkl ("pickle") or the source files ("sources");
\* "nothing" when it raises
LoadedFrom(target_path, c, files) ==
    IF target_path = NoDir THEN "nothing"
    ELSE IF target_path \in DOMAIN c THEN "memory"
    ELSE IF IsCacheValid(files[target_path]) THEN "pickle"
    ELSE IF ~files[target_path].readable THEN "nothing"
    ELSE "sources"

\* AscReferenceData.get_data: what it returns (or raises), the new _cache
\* and the files afterwards
GetDataResult(dt, index, dirs, c, files, now) ==
    GetDataFrom(FindQuarterDirectory(dt, index, dirs), c, files, now)

-----------------------------------------------------------------------------
(* AscClient._mue_check *)

Max(a, b) == IF a >= b THEN a ELSE b

\* max(1, int(line.units or 1))
BilledUnits(units) == Max(1, IF units = 0 THEN 1 ELSE units)

\* mues is None or a dict: [given |-> BOOLEAN, rules |-> HCPCS -> AscMueLimit]
NoMues == [given |-> FALSE, rules |-> << >>]
Mues(rules) == [given |-> TRUE, rules |-> rules]
AscMueLimit(limit, up_to) == [mue_limit |-> limit, up_to_limit |-> up_to]

\* the grouping without the test of the line's status
InMueGroupAnyStatus(calculated, rules, i) ==
    calculated[i].hcpcs \in DOMAIN rules

\* the lines collected into hcpcs_to_lines
InMueGroup(calculated, rules, i) ==
    calculated[i].status = "payable" /\ calculated[i].hcpcs \in DOMAIN rules

\* the indices of the lines in the (HCPCS, service_date) group of line i
GroupMembers(claim_lines, calculated, rules, i) ==
    {j \in 1..Len(calculated) :
        /\ InMueGroup(calculated, rules, j)
        /\ calculated[j].hcpcs = calculated[i].hcpcs
        /\ claim_lines[calculated[j].line_number].service_date
             = claim_lines[calculated[i].line_number].service_date}

RECURSIVE SumBilledUnits(_, _, _)
SumBilledUnits(claim_lines, calculated, members) ==
    IF members = {} THEN 0
    ELSE LET j == CHOOSE k \in members : TRUE
         IN  BilledUnits(claim_lines[calculated[j].line_number].units)
             + SumBilledUnits(claim_lines, calculated, members \ {j})

RECURSIVE Ascending(_)
Ascending(S) ==
    IF S = {} THEN << >>
    ELSE LET m == CHOOSE k \in S : \A j \in S : k <= j
         IN  <<m>> \o Ascending(S \ {m})

\* the denial without g.units = 0
MueDenyKeepUnits(g, reason) ==
    [g EXCEPT !.status = "denied", !.status_reason = reason,
              !.adjusted_rate = Zero,
              !.line_payment = 0, !.line_copayment = 0, !.line_total = 0]

\* g.status = "denied" with the reason, the rate, the units and the money
\* fields zeroed
MueDeny(g, reason) ==
    [g EXCEPT !.status = "denied", !.status_reason = reason,
              !.adjusted_rate = Zero, !.units = 0,
              !.line_payment = 0, !.line_copayment = 0, !.line_total = 0]

\* the date-of-service edit without remaining_allowed -= billed
RECURSIVE DosEditNoCarry(_, _, _, _, _)
DosEditNoCarry(claim_lines, lines, members, k, remaining_allowed) ==
    IF k > Len(members) THEN lines
    ELSE LET i == members[k]
             billed == BilledUnits(claim_lines[lines[i].line_number].units)
         IN  IF remaining_allowed <= 0
             THEN DosEditNoCarry(claim_lines,
                                 [lines EXCEPT ![i] = MueDeny(@, ReasonMueExcess)],
                                 members, k + 1, remaining_allowed)
             ELSE IF billed > remaining_allowed
             THEN DosEditNoCarry(claim_lines,
                                 [lines EXCEPT ![i].units = remaining_allowed,
                                               ![i].status_reason = ReasonMuePartial],
                                 members, k + 1, 0)
             ELSE DosEditNoCarry(claim_lines, lines, members, k + 1,
                                 remaining_allowed)

\* the date-of-service edit over the lines of one group, in claim order
RECURSIVE DosEdit(_, _, _, _, _)
DosEdit(claim_lines, lines, members, k, remaining_allowed) ==
    IF k > Len(members) THEN lines
    ELSE LET i == members[k]
             billed == BilledUnits(claim_lines[lines[i].line_number].units)
         IN  IF remaining_allowed <= 0
             THEN DosEdit(claim_lines,
                          [lines EXCEPT ![i] = MueDeny(@, ReasonMueExcess)],
                          members, k + 1, remaining_allowed)
             ELSE IF billed > remaining_allowed
             THEN DosEdit(claim_lines,
                          [lines EXCEPT ![i].units = remaining_allowed,
                                        ![i].status_reason = ReasonMuePartial],
                          members, k + 1, 0)
             ELSE DosEdit(claim_lines, lines, members, k + 1,
                          remaining_allowed - billed)

\* the edit of the group of line i (i is the first line of its group)
EditGroup(claim_lines, calculated, lines, rules, i) ==
    LET members == GroupMembers(claim_lines, calculated, rules, i)
        mue == rules[calculated[i].hcpcs]
        total_units == SumBilledUnits(claim_lines, calculated, members)
    IN  IF total_units <= mue.mue_limit THEN lines
        ELSE IF ~mue.up_to_limit
        THEN [j \in 1..Len(lines) |->
                 IF j \in members THEN MueDeny(lines[j], ReasonMueAll)
                 ELSE lines[j]]
        ELSE DosEdit(claim_lines, lines, Ascending(members), 1, mue.mue_limit)

RECURSIVE EditGroupsFrom(_, _, _, _, _)
EditGroupsFrom(claim_lines, calculated, lines, rules, i) ==
    IF i > Len(calculated) THEN lines
    ELSE IF InMueGroup(calculated, rules, i)
            /\ \A j \in GroupMembers(claim_lines, calculated, rules, i) : i <= j
    THEN EditGroupsFrom(claim_lines, calculated,
                        EditGroup(claim_lines, calculated, lines, rules, i),
                        rules, i + 1)
    ELSE EditGroupsFrom(claim_lines, calculated, lines, rules, i + 1)

\* the calculated lines after _mue_check
MueCheck(claim_lines, calculated_lines, m) ==
    IF ~m.given \/ DOMAIN m.rules = {} THEN calculated_lines
    ELSE EditGroupsFrom(claim_lines, calculated_lines, calculated_lines,
                        m.rules, 1)

-----------------------------------------------------------------------------
(* The ancillary gate of process (CMS 60.2) *)

\* rates_lookup.get(hcpcs, {}).get("addendum", default)
AddendumOf(rates_lookup, hcpcs, default) ==
    IF hcpcs \in DOMAIN rates_lookup THEN rates_lookup[hcpcs].addendum
    ELSE default

\* the test for a surgical line without g.status == "payable"
HasSurgicalAnyStatus(rates_lookup, lines) ==
    \E i \in 1..Len(lines) :
        AddendumOf(rates_lookup, lines[i].hcpcs, "AA") = "AA"

\* has_payable_surgical
HasPayableSurgical(rates_lookup, lines) ==
    \E i \in 1..Len(lines) :
        /\ lines[i].status = "payable"
        /\ AddendumOf(rates_lookup, lines[i].hcpcs, "AA") = "AA"

\* the downgrade without g.adjusted_rate = 0.0
AncillaryGateKeepRate(rates_lookup, lines) ==
    IF HasPayableSurgical(rates_lookup, lines) THEN lines
    ELSE [i \in 1..Len(lines) |->
             IF AddendumOf(rates_lookup, lines[i].hcpcs, None) = "BB"
                /\ lines[i].status = "payable"
             THEN [lines[i] EXCEPT !.status = "unprocessable",
                                   !.status_reason = ReasonNoSurgical]
             ELSE lines[i]]

\* calculated_lines after the gate
AncillaryGate(rates_lookup, lines) ==
    IF HasPayableSurgical(rates_lookup, lines) THEN lines
    ELSE [i \in 1..Len(lines) |->
             IF AddendumOf(rates_lookup, lines[i].hcpcs, None) = "BB"
                /\ lines[i].status = "payable"
             THEN [lines[i] EXCEPT !.status = "unprocessable",
                                   !.status_reason = ReasonNoSurgical,
                                   !.adjusted_rate = Zero]
             ELSE lines[i]]

-----------------------------------------------------------------------------
(* The final summation of process *)

\* the units billed on the claim line, whatever _mue_check left
SummationBilledUnits(line_out, claim_lines) ==
    BilledUnits(claim_lines[line_out.line_number].units)

\* line_out.units if positive, else the billed units of the claim line
SummationUnits(line_out, claim_lines) ==
    IF line_out.units > 0 THEN line_out.units
    ELSE BilledUnits(claim_lines[line_out.line_number].units)

\* _effective_rate: the lower of adjusted_rate and the charges per unit.
\* The quotient is exact for every modelled charge amount.
EffectiveRate(line_out, claim_lines) ==
    LET line_item == claim_lines[line_out.line_number]
        unit_count == IF line_out.units > 0 THEN line_out.units
                      ELSE IF line_item.units >= 1 THEN Max(1, line_item.units)
                      ELSE 1
    IN  IF line_item.charges > 0
        THEN RMin(line_out.adjusted_rate,
                  RDivInt(Cents(line_item.charges), unit_count))
        ELSE line_out.adjusted_rate

\* indices of discount_lines (before sorting)
DiscountLines(lines) ==
    {i \in 1..Len(lines) :
        lines[i].subject_to_discount /\ RLess(Zero, lines[i].adjusted_rate)}

\* the sort without reverse=True: ascending, stable
RECURSIVE SortAscendingByEffectiveRate(_, _, _)
SortAscendingByEffectiveRate(S, lines, claim_lines) ==
    IF S = {} THEN << >>
    ELSE LET low == CHOOSE i \in S : \A j \in S :
                        \/ RLess(EffectiveRate(lines[i], claim_lines),
                                 EffectiveRate(lines[j], claim_lines))
                        \/ /\ EffectiveRate(lines[j], claim_lines)
                                = EffectiveRate(lines[i], claim_lines)
                           /\ i <= j
         IN  <<low>> \o SortAscendingByEffectiveRate(S \ {low}, lines,
                                                     claim_lines)

\* discount_lines.sort(key=_effective_rate, reverse=True): a stable sort,
\* lines of equal effective rate keep their claim order
RECURSIVE SortByEffectiveRate(_, _, _)
SortByEffectiveRate(S, lines, claim_lines) ==
    IF S = {} THEN << >>
    ELSE LET top == CHOOSE i \in S : \A j \in S :
                        \/ RLess(EffectiveRate(lines[j], claim_lines),
                                 EffectiveRate(lines[i], claim_lines))
                        \/ /\ EffectiveRate(lines[j], claim_lines)
                                = EffectiveRate(lines[i], claim_lines)
                           /\ i <= j
         IN  <<top>> \o SortByEffectiveRate(S \ {top}, lines, claim_lines)

\* position of line i in the sorted discount_lines (0: not in it)
RECURSIVE PositionIn(_, _, _)
PositionIn(sorted, i, k) ==
    IF k > Len(sorted) THEN 0
    ELSE IF sorted[k] = i THEN k
    ELSE PositionIn(sorted, i, k + 1)

\* the allowed amount of the line ranked mpr_idx, of the given effective
\* rate and units, in cents
RankedPayment(eff_rate, units, mpr_idx) ==
    IF mpr_idx = 0
    THEN IF units > 1
         THEN Quantize(RAdd(eff_rate,
                            RMul(RMul(eff_rate, _HALF), RInt(units - 1))))
         ELSE Quantize(eff_rate)
    ELSE Quantize(RMul(RMul(eff_rate, _HALF), RInt(units)))

\* the allowed amount of a ranked discount line, in cents
MprPayment(line_out, claim_lines, mpr_idx) ==
    RankedPayment(EffectiveRate(line_out, claim_lines),
                  SummationUnits(line_out, claim_lines), mpr_idx)

\* the allowed amount of a payable line outside the discount pool, in cents
NoDiscountPayment(line_out, claim_lines) ==
    Quantize(RMul(EffectiveRate(line_out, claim_lines),
                  RInt(SummationUnits(line_out, claim_lines))))

\* the 80 percent share cut off at the cent instead of rounded
PaymentShareTruncated(payment) == (payment * 8) \div 10

\* line_payment and line_copayment of an allowed amount (cents)
PaymentShare(payment) == Quantize(RMul(Cents(payment), _PAYMENT_RATE))
CopayShare(payment) == Quantize(RMul(Cents(payment), _COPAY_RATE))

WithPayment(line_out, claim_lines, payment, applied) ==
    [line_out EXCEPT
        !.discount_applied = applied,
        !.units = SummationUnits(line_out, claim_lines),
        !.line_payment = PaymentShare(payment),
        !.line_copayment = CopayShare(payment),
        !.line_total = payment]

\* the allowed amount added to total for line i (0 for a skipped line)
AllowedAmount(lines, claim_lines, sorted, i) ==
    LET k == PositionIn(sorted, i, 1)
    IN  IF k # 0 THEN MprPayment(lines[i], claim_lines, k - 1)
        ELSE IF lines[i].status = "payable"
        THEN NoDiscountPayment(lines[i], claim_lines)
        ELSE 0

\* output.lines: the lines after both summation loops, by line number;
\* sorted is discount_lines after its sort
SummedLines(lines, claim_lines, sorted) ==
    [i \in 1..Len(lines) |->
        LET k == PositionIn(sorted, i, 1)
        IN  IF k # 0
            THEN WithPayment(lines[i], claim_lines,
                             AllowedAmount(lines, claim_lines, sorted, i),
                             k # 1)
            ELSE IF lines[i].status = "payable"
            THEN WithPayment(lines[i], claim_lines,
                             AllowedAmount(lines, claim_lines, sorted, i),
                             lines[i].discount_applied)
            ELSE lines[i]]

RECURSIVE SumAllowed(_, _, _, _)
SumAllowed(lines, claim_lines, sorted, i) ==
    IF i > Len(lines) THEN 0
    ELSE AllowedAmount(lines, claim_lines, sorted, i)
         + SumAllowed(lines, claim_lines, sorted, i + 1)

\* the total without total += payment in the second loop
RECURSIVE SumRanked(_, _, _, _)
SumRanked(lines, claim_lines, sorted, k) ==
    IF k > Len(sorted) THEN 0
    ELSE MprPayment(lines[sorted[k]], claim_lines, k - 1)
         + SumRanked(lines, claim_lines, sorted, k + 1)

TotalOfDiscountLoop(lines, claim_lines, sorted) ==
    SumRanked(lines, claim_lines, sorted, 1)

\* total: the Decimal sum of the allowed amounts of both loops (cents)
TotalAllowed(lines, claim_lines, sorted) ==
    SumAllowed(lines, claim_lines, sorted, 1)

\* output.total_payment and output.total_copayment
TotalPayment(total) == Quantize(RMul(Cents(total), _PAYMENT_RATE))
TotalCopayment(total) == Quantize(RMul(Cents(total), _COPAY_RATE))

-----------------------------------------------------------------------------
(* AscClient.process *)

ClaimLine(hcpcs, units, charges, modifiers, service_date) ==
    [hcpcs |-> hcpcs, units |-> units, charges |-> charges,
     modifiers |-> modifiers, service_date |-> service_date]

\* opsf_provider: None or an OPSFProvider; "" is a field that is None
NoProvider == [present |-> FALSE, cbsa_wage_index_location |-> "",
               cbsa_actual_geographic_location |-> ""]

\* device_available_units[hcpcs] = device_available_units.get(hcpcs, 0) + n
RECURSIVE IndexOfDevice(_, _, _)
IndexOfDevice(dau, hcpcs, i) ==
    IF i > Len(dau) THEN 0
    ELSE IF dau[i][1] = hcpcs THEN i
    ELSE IndexOfDevice(dau, hcpcs, i + 1)

AddDeviceUnits(dau, hcpcs, n) ==
    LET i == IndexOfDevice(dau, hcpcs, 1)
    IN  IF i = 0 THEN Append(dau, <<hcpcs, n>>)
        ELSE [dau EXCEPT ![i] = <<hcpcs, dau[i][2] + n>>]

\* the device unit budget of the claim, built before the lines are priced
RECURSIVE DeviceAvailableUnits(_, _, _, _)
DeviceAvailableUnits(claim_lines, code_pairs, i, dau) ==
    IF i > Len(claim_lines) THEN dau
    ELSE LET line == claim_lines[i]
             line_units == IF line.units >= 1 THEN Max(1, line.units) ELSE 1
         IN  IF line.hcpcs \in StartsWithC
                /\ \E k \in DOMAIN code_pairs : k[1] = line.hcpcs
             THEN DeviceAvailableUnits(claim_lines, code_pairs, i + 1,
                                       AddDeviceUnits(dau, line.hcpcs, line_units))
             ELSE DeviceAvailableUnits(claim_lines, code_pairs, i + 1, dau)

\* calculated_lines: _process_line over the lines in order, threading the
\* device unit budget
RECURSIVE CalculateLines(_, _, _, _, _, _, _)
CalculateLines(claim_lines, i, ref_data, wage_index, dau, claim_date, acc) ==
    IF i > Len(claim_lines) THEN acc
    ELSE LET r == ProcessLine(claim_lines[i], i - 1, ref_data, wage_index,
                              ref_data.code_pairs, dau, claim_date)
         IN  CalculateLines(claim_lines, i + 1, ref_data, wage_index, r.dau,
                            claim_date, Append(acc, r.line))

\* device_available_units after the line loop, which takes a unit from the
\* budget for every code pair offset it applies
RECURSIVE ConsumeDeviceUnits(_, _, _, _, _, _)
ConsumeDeviceUnits(claim_lines, i, ref_data, wage_index, dau, claim_date) ==
    IF i > Len(claim_lines) THEN dau
    ELSE ConsumeDeviceUnits(claim_lines, i + 1, ref_data, wage_index,
                            ProcessLine(claim_lines[i], i - 1, ref_data,
                                        wage_index, ref_data.code_pairs, dau,
                                        claim_date).dau,
                            claim_date)

\* the budget that fills process's local in place of the one an earlier
\* call left
DeviceUnitsKept(left) == left

\* device_available_units = {}: process creates its local empty, whatever
\* an earlier call left in its own
NewDeviceUnits(left) == << >>

\* the CBSA used for the wage index lookup ("" is a falsy value)
SelectCbsa(additional_data, provider) ==
    LET override == IF "cbsa" \in DOMAIN additional_data
                    THEN additional_data["cbsa"] ELSE ""
    IN  IF override # "" THEN override
        ELSE IF provider.cbsa_wage_index_location # ""
        THEN provider.cbsa_wage_index_location
        ELSE IF provider.cbsa_actual_geographic_location # ""
        THEN provider.cbsa_actual_geographic_location
        ELSE "0"

WageIndexMessage == "Wage Index not found for CBSA, it will default to 1.0"

ErrorOutput(code) == [AscOutput EXCEPT !.error = code]

\* calculated_lines after step 4 of process
StageCalculated(c, ref_data, wage_index, left) ==
    CalculateLines(c.lines, 1, ref_data, wage_index,
                   DeviceAvailableUnits(c.lines, ref_data.code_pairs, 1,
                                        NewDeviceUnits(left)),
                   c.thru_date, << >>)

\* device_available_units after step 4 of process
StageDeviceUnits(c, ref_data, wage_index, left) ==
    ConsumeDeviceUnits(c.lines, 1, ref_data, wage_index,
                       DeviceAvailableUnits(c.lines, ref_data.code_pairs, 1,
                                            NewDeviceUnits(left)),
                       c.thru_date)

\* the values calculated_lines takes in process: after step 4 (the line
\* loop), step 5 (_mue_check) and step 5b (the ancillary gate)
Stages(step4, step5, step5b) ==
    [step4 |-> step4, step5 |-> step5, step5b |-> step5b]

NoStages == Stages(<< >>, << >>, << >>)

\* the end of step 6: the lines and the three totals into the output
WithTotals(out, lines, total) ==
    [out EXCEPT
        !.lines = lines,
        !.total_payment = TotalPayment(total),
        !.total_copayment = TotalCopayment(total),
        !.total = total]

\* step 6 over the sorted discount_lines
SummationOver(out, lines, claim_lines, sorted) ==
    WithTotals(out, SummedLines(lines, claim_lines, sorted),
               TotalAllowed(lines, claim_lines, sorted))

\* step 6 (final summation)
Summation(out, lines, claim_lines) ==
    SummationOver(out, lines, claim_lines,
                  SortByEffectiveRate(DiscountLines(lines), lines, claim_lines))

\* step 6 after the gate, with the values calculated_lines took
AfterGate(out, c, step4, step5, step5b) ==
    [output |-> Summation(out, step5b, c.lines),
     calculated_lines |-> Stages(step4, step5, step5b)]

\* step 5b onwards
AfterMue(out, c, ref_data, step4, step5) ==
    AfterGate(out, c, step4, step5, AncillaryGate(ref_data.rates, step5))

\* steps 5 and 5b in the other order: the gate sees the lines before
\* _mue_check has changed them
AfterLinesGateFirst(out, c, m, ref_data, step4) ==
    AfterGate(out, c, step4, MueCheck(c.lines, step4, m),
              MueCheck(c.lines, AncillaryGate(ref_data.rates, step4), m))

\* step 5 onwards
AfterLines(out, c, m, ref_data, step4) ==
    AfterMue(out, c, ref_data, step4, MueCheck(c.lines, step4, m))

\* an OPSFProvider with its two CBSA fields ("": the field is None)
Provider(wage_index_location, geographic_location) ==
    [present |-> TRUE, cbsa_wage_index_location |-> wage_index_location,
     cbsa_actual_geographic_location |-> geographic_location]

\* the priced claim together with the device unit budget the call leaves
WithDeviceUnits(priced, dau) ==
    [output |-> priced.output, calculated_lines |-> priced.calculated_lines,
     device_available_units |-> dau]

\* step 4 onwards, for the CBSA chosen in step 3
PriceAt(c, m, ref_data, cbsa, wage_index, left) ==
    WithDeviceUnits(
        AfterLines([AscOutput EXCEPT !.cbsa = cbsa, !.wage_index = wage_index],
                   c, m, ref_data,
                   StageCalculated(c, ref_data, wage_index, left)),
        StageDeviceUnits(c, ref_data, wage_index, left))

\* steps 3 to 6 without the message about the defaulted wage index
PriceWithSilentDefault(c, provider, m, ref_data, left) ==
    LET cbsa == SelectCbsa(c.additional_data, provider)
    IN  PriceAt(c, m, ref_data, cbsa,
                IF cbsa \in DOMAIN ref_data.wage_indices
                THEN ref_data.wage_indices[cbsa] ELSE One,
                left)

\* steps 3 to 6 of process, with the bundle get_data returned
PriceWith(c, provider, m, ref_data, left) ==
    LET cbsa == SelectCbsa(c.additional_data, provider)
        found == cbsa \in DOMAIN ref_data.wage_indices
        priced == PriceAt(c, m, ref_data, cbsa,
                          IF found THEN ref_data.wage_indices[cbsa] ELSE One,
                          left)
    IN  [priced EXCEPT
            !.output.message = IF found THEN None ELSE WageIndexMessage]

\* what process leaves: the output, the loader's _cache and the files,
\* calculated_lines and the device unit budget
Returned(out, loaded, files, stages, dau) ==
    [output |-> out, cache |-> loaded, disk |-> files,
     calculated_lines |-> stages, device_available_units |-> dau]

\* the priced claim together with the loader's _cache and the files
WithCache(priced, loaded, files) ==
    Returned(priced.output, loaded, files, priced.calculated_lines,
             priced.device_available_units)

\* process from the call of get_data on
ProcessWith(c, provider, m, got, left) ==
    IF got.ret = FileNotFoundError
    THEN Returned(ErrorOutput("ASC02"), got.cache, got.disk, NoStages, left)
    ELSE IF Raised(got.ret)
    THEN Returned(ErrorOutput("ASC99"), got.cache, got.disk, NoStages, left)
    ELSE WithCache(PriceWith(c, provider, m, BundleData(got.ret), left),
                   got.cache, got.disk)

\* process with the thru date checked before the provider and the CBSA
ProcessResultDateFirst(c, provider, m, index, dirs, loaded, files, now, left) ==
    IF c.thru_date = NoDate
    THEN Returned(ErrorOutput("ASC03"), loaded, files, NoStages, left)
    ELSE IF ~provider.present /\ "cbsa" \notin DOMAIN c.additional_data
    THEN Returned(ErrorOutput("ASC01"), loaded, files, NoStages, left)
    ELSE ProcessWith(c, provider, m,
                     GetDataResult(c.thru_date, index, dirs, loaded, files,
                                   now),
                     left)

\* process: the AscOutput, the data loader's _cache and the files
\* afterwards, the values calculated_lines took and the device unit budget;
\* left is the budget of the call before
ProcessResult(c, provider, m, index, dirs, loaded, files, now, left) ==
    IF ~provider.present /\ "cbsa" \notin DOMAIN c.additional_data
    THEN Returned(ErrorOutput("ASC01"), loaded, files, NoStages, left)
    ELSE IF c.thru_date = NoDate
    THEN Returned(ErrorOutput("ASC03"), loaded, files, NoStages, left)
    ELSE ProcessWith(c, provider, m,
                     GetDataResult(c.thru_date, index, dirs, loaded, files,
                                   now),
                     left)

-----------------------------------------------------------------------------
(* Inputs *)

ThruDate == Date(2025, 1, 15)
OtherServiceDate == Date(2025, 1, 16)

\* the data directory the pricing calls run against
PricerStore == {Dir(2025, 20250101)}

\* source files that were never modified, a wage index file at year
\* level, no data.pkl, nothing that fails
CleanFiles ==
    Files([k \in SourceKinds |-> SourceFile(0, 0)], {"year_wage_index"},
          NoPkl, TRUE, TRUE)

SeqsUpTo(S, n) == UNION {[1..k -> S] : k \in 1..n}

MakeClaim(thru_date, cbsa, lines) ==
    [thru_date |-> thru_date, additional_data |-> [cbsa |-> cbsa],
     lines |-> lines]

\* payment inputs: surgical lines of three codes, with and without
\* submitted charges and modifier 52
PayLines ==
    {ClaimLine("10001", u, c, {}, NoDate) : u \in 1..MaxPayUnits, c \in {0, 6000}}
    \cup {ClaimLine("10003", u, 0, {}, NoDate) : u \in 1..MaxPayUnits}
    \cup {ClaimLine("10003", 1, 0, {MOD_REDUCED_PROCEDURE}, NoDate),
          ClaimLine("10002", 2, 0, {}, NoDate)}

\* MUE inputs: surgical lines of one code on two service dates, ancillary
\* lines, and lines that are not payable
MueLines ==
    {ClaimLine("10001", u, 0, {}, NoDate) : u \in 0..MaxUnits}
    \cup {ClaimLine("10001", 2, 0, {}, OtherServiceDate)}
    \cup {ClaimLine("C1234", u, 0, {}, NoDate) : u \in {0, 2}}
    \cup {ClaimLine("20001", 2, 0, {}, NoDate)}

\* rule maps: absent, empty, one rule for all three codes, and a rule for
\* the device code alone
MueRuleMaps ==
    {NoMues, Mues(<< >>)}
    \cup {Mues([h \in {"10001", "C1234", "20001"} |-> AscMueLimit(l, t)]) :
            l \in 0..MaxLimit, t \in BOOLEAN}
    \cup {Mues([h \in {"C1234"} |-> AscMueLimit(1, t)]) : t \in BOOLEAN}

\* split inputs: discount-eligible lines whose submitted charges, below the
\* rate, make the allowed amount every small number of cents
SplitLines == {ClaimLine("10001", 1, c, {}, NoDate) : c \in 1..MaxCharge}

\* reduction inputs: lines of two discount-eligible codes and of one that is
\* not, with and without charges, under no rule and under a date-of-service
\* edit that caps the units of one code
CapLines ==
    {ClaimLine("10001", u, c, {}, NoDate) : u \in 1..MaxUnits, c \in {0, 6000}}
    \cup {ClaimLine("10003", 1, 0, {}, NoDate),
          ClaimLine("10002", 2, 0, {}, NoDate)}

CapRuleMaps == {NoMues, Mues([h \in {"10001"} |-> AscMueLimit(2, TRUE)])}

\* code pair inputs: two devices, one billed with one or two units, and two
\* procedures; both procedures pair with the first device and one of them
\* with the second
PairLines ==
    {ClaimLine("C1234", u, 0, {}, NoDate) : u \in 1..2}
    \cup {ClaimLine(h, 1, 0, {}, NoDate) : h \in {"C5678", "10001", "10003"}}

\* modifier inputs: one line of a device-intensive code or of a code without
\* device offset, under every set of the five modifiers, without charges,
\* with charges above the rate and with charges below it
Modifiers ==
    {MOD_TERMINATED_PRE_ANESTHESIA, MOD_TERMINATED_POST_ANESTHESIA,
     MOD_REDUCED_PROCEDURE, MOD_DEVICE_NO_COST, MOD_DEVICE_PARTIAL_CREDIT}

ModLines ==
    {ClaimLine(h, 1, c, mods, NoDate) :
        h \in {"10004", "10003"}, c \in {0, 6000, 999900},
        mods \in SUBSET Modifiers}

\* claim-level inputs: with and without provider, CBSA override, thru date,
\* reference data for the date and readable source files; lines of every
\* payment indicator and of a code that is in no fee schedule
Providers ==
    {NoProvider, Provider("10000", "35614"), Provider("", "35614"),
     Provider("", ""), Provider("77777", "10000")}

\* additional_data: without "cbsa", with an empty value, with a CBSA of the
\* wage index table and with one that is not in it
AdditionalData ==
    {<< >>} \cup {[cbsa |-> v] : v \in {"", "35614", "77777"}}

CallLines ==
    {<< >>}
    \cup {<<ClaimLine(h, 1, 0, {}, NoDate)>> :
            h \in {"10001", "10002", "20001", "30001", "40001", "C1234",
                   "99999"}}
    \cup {<<ClaimLine(h, 1, 0, {}, NoDate),
             ClaimLine("10001", 2, 0, {}, NoDate)>> : h \in {"C1234", "99999"}}

CallClaims ==
    {[thru_date |-> dt, additional_data |-> a, lines |-> ls] :
        dt \in {NoDate, ThruDate, Date(2024, 1, 1)}, a \in AdditionalData,
        ls \in CallLines}

CallRuleMaps == {NoMues, Mues([h \in {"10001"} |-> AscMueLimit(1, FALSE)])}

\* source files that open() refuses to read
UnreadableFiles == [CleanFiles EXCEPT !.readable = FALSE]

\* data.pkl as a quarter directory may hold it before the first load:
\* none, one written from the present source files, one written by a
\* release with another cache version
OldVersionBundle(path, files) ==
    [BuildFromSources(path, files) EXCEPT !._cache_version = _CACHE_VERSION - 1]

InitialPkls(path, files) ==
    {NoPkl, Pkl(BuildFromSources(path, files), 0),
     Pkl(OldVersionBundle(path, files), 1)}

\* the quarter directory with each combination of wage index files and
\* each data.pkl it may hold
InitialFiles(path) ==
    UNION {{[CleanFiles EXCEPT !.wage_files = w, !.pkl = p] :
              p \in InitialPkls(path, [CleanFiles EXCEPT !.wage_files = w])} :
           w \in SUBSET WageKinds}

\* inputs of repeated calls: claims whose device lines leave units in the
\* budget or use it up, and a claim under an MUE rule
RepeatClaims ==
    {MakeClaim(ThruDate, "35614", ls) :
        ls \in {<<ClaimLine("C1234", 1, 0, {}, NoDate),
                  ClaimLine("10001", 1, 0, {}, NoDate),
                  ClaimLine("10001", 1, 0, {}, NoDate)>>,
                <<ClaimLine("C1234", 2, 0, {}, NoDate),
                  ClaimLine("10001", 1, 0, {}, NoDate)>>,
                <<ClaimLine("10001", 2, 0, {}, NoDate),
                  ClaimLine("10001", 1, 0, {}, NoDate)>>}}

RepeatRuleMaps ==
    {NoMues, Mues([h \in {"10001"} |-> AscMueLimit(2, TRUE)])}

\* the quarter directories a data directory may hold: three well-formed
\* ones, one under the wrong year directory, one whose name is no date
DirUniverse ==
    {Dir(2024, 20241001), Dir(2025, 20250101), Dir(2025, 20250401),
     Dir(2024, 20250701), Dir(2025, 20251301)}

RequestDates ==
    {Date(2024, 1, 1), Date(2024, 9, 30), Date(2024, 10, 1),
     Date(2024, 12, 31), Date(2025, 2, 15), Date(2025, 4, 1),
     Date(2025, 6, 30), Date(2025, 7, 1), Date(2025, 8, 1), Date(2026, 6, 1)}

-----------------------------------------------------------------------------
(* Actions *)

\* one pricing call: AscClient.process(claim, opsf_provider, mues)
Process ==
    /\ pc = "ready"
    /\ \E r \in {ProcessResult(claim, opsf_provider, mues,
                                available_quarters, store, cache, disk,
                                clock, device_available_units)} :
           /\ output' = r.output
           /\ cache' = r.cache
           /\ disk' = r.disk
           /\ line_stages' = r.calculated_lines
           /\ device_available_units' = r.device_available_units
    /\ pc' = "done"
    /\ UNCHANGED <<claim, opsf_provider, mues, earlier, calls, store, clock,
                   available_quarters, request, path_taken, result,
                   last_load, callers>>

\* the caller keeps the output and gives the same client its next call
NextCall(c, m) ==
    /\ pc = "done"
    /\ calls + 1 < MaxCalls
    /\ earlier' = IF <<claim, opsf_provider, mues>> \in DOMAIN earlier
                  THEN earlier
                  ELSE [k \in DOMAIN earlier \cup {<<claim, opsf_provider, mues>>} |->
                           IF k \in DOMAIN earlier THEN earlier[k] ELSE output]
    /\ calls' = calls + 1
    /\ claim' = c
    /\ mues' = m
    /\ pc' = "ready"
    /\ UNCHANGED <<opsf_provider, output, line_stages, device_available_units,
                   loaderVars>>

\* AscReferenceData.preload_all_data; an exception of a load leaves the
\* index assigned and the quarters loaded before it cached
Preload ==
    /\ pc = "loader"
    /\ available_quarters' = Index(ScanAllQuarters(store))
    /\ \E r \in {LoadAll(ScanAllQuarters(store), 1,
                         LoaderState(NoResult, cache, disk), clock)} :
           /\ cache' = r.cache
           /\ disk' = r.disk
           /\ result' = IF Raised(r.ret) THEN r.ret ELSE result
           /\ last_load' =
                 IF Raised(r.ret) \/ ScanAllQuarters(store) = << >>
                 THEN "nothing"
                 ELSE LoadedFrom(
                          ScanAllQuarters(store)[Len(ScanAllQuarters(store))][2],
                          << >>, disk)
    /\ UNCHANGED <<pricerVars, store, clock, request, path_taken, callers>>

\* AscReferenceData.get_data(date)
GetData(dt) ==
    /\ pc = "loader"
    /\ \E r \in {GetDataResult(dt, available_quarters, store, cache, disk,
                               clock)} :
           /\ result' = r.ret
           /\ cache' = r.cache
           /\ disk' = r.disk
    /\ request' = dt
    /\ path_taken' = IF available_quarters.built THEN "index" ELSE "filesystem"
    /\ last_load' = LoadedFrom(FindQuarterDirectory(dt, available_quarters,
                                                    store),
                               cache, disk)
    /\ UNCHANGED <<pricerVars, store, clock, available_quarters, callers>>

\* a source file of a quarter directory is modified: new content, and the
\* modification time of a clock that has advanced
Touch(d, k) ==
    /\ pc = "loader"
    /\ k \in WageKinds => k \in disk[d].wage_files
    /\ clock < MaxClock
    /\ clock' = clock + 1
    /\ disk' = [disk EXCEPT ![d].src[k] =
                    SourceFile(clock + 1, disk[d].src[k].content + 1)]
    /\ last_load' = "nothing"
    /\ UNCHANGED <<pricerVars, store, available_quarters, cache, request,
                   path_taken, result, callers>>

\* data.pkl is damaged: it exists and cannot be unpickled
CorruptCache(d) ==
    /\ pc = "loader"
    /\ disk[d].pkl.exists
    /\ disk[d].pkl.loads
    /\ disk' = [disk EXCEPT ![d].pkl.loads = FALSE]
    /\ last_load' = "nothing"
    /\ UNCHANGED <<pricerVars, store, clock, available_quarters, cache,
                   request, path_taken, result, callers>>

\* the quarter directory becomes read-only, or writable again
Chmod(d) ==
    /\ pc = "loader"
    /\ disk' = [disk EXCEPT ![d].writable = ~disk[d].writable]
    /\ last_load' = "nothing"
    /\ UNCHANGED <<pricerVars, store, clock, available_quarters, cache,
                   request, path_taken, result, callers>>

\* AscReferenceData(data_dir): a fresh loader over the same directory
NewLoader ==
    /\ pc = "loader"
    /\ cache # << >>
    /\ available_quarters' = NoIndex
    /\ cache' = << >>
    /\ request' = NoDate
    /\ path_taken' = None
    /\ result' = NoResult
    /\ last_load' = "nothing"
    /\ UNCHANGED <<pricerVars, store, disk, clock, callers>>

\* The steps of caller t in get_data(ThruDate), which resolves to quarter
\* directory d.

\* get_data: _find_quarter_directory and the look into self._cache
Enter(t, d) ==
    /\ pc = "loader"
    /\ callers[t].pc = "idle"
    /\ d = FindQuarterDirectory(ThruDate, available_quarters, store)
    /\ callers' = [callers EXCEPT ![t] = EnterGetData(@, d, cache)]
    /\ UNCHANGED <<pricerVars, store, disk, clock, available_quarters, cache,
                   request, path_taken, result, last_load>>

\* _is_cache_valid: does data.pkl exist
CacheExists(t, d) ==
    /\ pc = "loader"
    /\ callers[t].pc = "exists"
    /\ callers' = [callers EXCEPT ![t] = CheckExists(@, disk[d].pkl)]
    /\ UNCHANGED <<pricerVars, store, disk, clock, available_quarters, cache,
                   request, path_taken, result, last_load>>

\* _is_cache_valid: open data.pkl, unpickle it and look at the version tag
ReadVersion(t, d) ==
    /\ pc = "loader"
    /\ callers[t].pc = "version"
    /\ \E outcome \in ReadOutcomes(disk[d].pkl, callers) :
           callers' = [callers EXCEPT ![t] = CheckVersion(@, outcome)]
    /\ UNCHANGED <<pricerVars, store, disk, clock, available_quarters, cache,
                   request, path_taken, result, last_load>>

\* _is_cache_valid: compare the modification times
CompareMtimes(t, d) ==
    /\ pc = "loader"
    /\ callers[t].pc = "mtime"
    /\ callers' = [callers EXCEPT ![t] = CheckMtimes(@, disk[d])]
    /\ UNCHANGED <<pricerVars, store, disk, clock, available_quarters, cache,
                   request, path_taken, result, last_load>>

\* _load_quarter_data: open data.pkl and unpickle the bundle
ReadCache(t, d) ==
    /\ pc = "loader"
    /\ callers[t].pc = "read"
    /\ \E outcome \in ReadOutcomes(disk[d].pkl, callers) :
           callers' = [callers EXCEPT ![t] = LoadFromCache(@, outcome)]
    /\ UNCHANGED <<pricerVars, store, disk, clock, available_quarters, cache,
                   request, path_taken, result, last_load>>

\* _load_quarter_data: build the bundle from the source files
LoadSources(t, d) ==
    /\ pc = "loader"
    /\ callers[t].pc = "build"
    /\ callers' = [callers EXCEPT ![t] = LoadFromSources(@, d, disk[d])]
    /\ UNCHANGED <<pricerVars, store, disk, clock, available_quarters, cache,
                   request, path_taken, result, last_load>>

\* _load_quarter_data: open(cache_path, "wb") truncates data.pkl; when it
\* raises the bundle is returned without a write
OpenForWrite(t, d) ==
    /\ pc = "loader"
    /\ callers[t].pc = "open_w"
    /\ IF disk[d].writable
       THEN /\ disk' = [disk EXCEPT ![d].pkl = Truncated(clock)]
            /\ callers' = [callers EXCEPT ![t].pc = "dump"]
       ELSE /\ disk' = disk
            /\ callers' = [callers EXCEPT ![t].pc = "store"]
    /\ UNCHANGED <<pricerVars, store, clock, available_quarters, cache,
                   request, path_taken, result, last_load>>

\* _load_quarter_data: pickle.dump and the close of the file
Dump(t, d) ==
    /\ pc = "loader"
    /\ callers[t].pc = "dump"
    /\ disk' = [disk EXCEPT ![d].pkl = Pkl(callers[t].data, clock)]
    /\ callers' = [callers EXCEPT ![t].pc = "store"]
    /\ UNCHANGED <<pricerVars, store, clock, available_quarters, cache,
                   request, path_taken, result, last_load>>

\* get_data: keep the bundle in self._cache and return it
Return(t, d) ==
    /\ pc = "loader"
    /\ callers[t].pc = "store"
    /\ cache' = Cached(cache, d, callers[t].data)
    /\ callers' = [callers EXCEPT ![t] = ReturnData(@)]
    /\ UNCHANGED <<pricerVars, store, disk, clock, available_quarters,
                   request, path_taken, result, last_load>>

-----------------------------------------------------------------------------
(* Specifications *)

\* a client that has priced nothing yet
InitClient ==
    /\ device_available_units = << >>
    /\ earlier = << >>
    /\ calls = 0

InitLoaderIdle ==
    /\ store = PricerStore
    /\ disk = [d \in PricerStore |-> CleanFiles]
    /\ clock = 1
    /\ available_quarters = NoIndex
    /\ cache = << >>
    /\ request = NoDate
    /\ path_taken = None
    /\ result = NoResult
    /\ last_load = "nothing"
    /\ callers = [t \in Callers |-> NewFrame]

InitPricer(claims, rulemaps) ==
    /\ claim \in claims
    /\ opsf_provider = NoProvider
    /\ mues \in rulemaps
    /\ output = AscOutput
    /\ line_stages = NoStages
    /\ InitClient
    /\ pc = "ready"
    /\ InitLoaderIdle

\* pricing calls over the payment inputs
InitPay ==
    InitPricer({MakeClaim(ThruDate, "35614", ls) :
                    ls \in SeqsUpTo(PayLines, MaxLines)}, {NoMues})

\* pricing calls over the MUE inputs
InitMue ==
    InitPricer({MakeClaim(ThruDate, "10000", ls) :
                    ls \in SeqsUpTo(MueLines, MaxLines)}, MueRuleMaps)

\* pricing calls over the modifier inputs, in two wage areas
InitMod ==
    InitPricer({MakeClaim(ThruDate, cbsa, <<l>>) :
                    cbsa \in {"10000", "35614"}, l \in ModLines}, {NoMues})

\* pricing calls over the split inputs
InitSplit ==
    InitPricer({MakeClaim(ThruDate, "35614", ls) :
                    ls \in SeqsUpTo(SplitLines, 2)}, {NoMues})

\* pricing calls over the reduction inputs
InitCap ==
    InitPricer({MakeClaim(ThruDate, "35614", ls) :
                    ls \in SeqsUpTo(CapLines, 2)}, CapRuleMaps)

\* pricing calls over the code pair inputs
InitPair ==
    InitPricer({MakeClaim(ThruDate, "35614", ls) :
                    ls \in SeqsUpTo(PairLines, MaxLines)}, {NoMues})

\* pricing calls over the claim-level inputs
InitCall ==
    /\ claim \in CallClaims
    /\ opsf_provider \in Providers
    /\ mues \in CallRuleMaps
    /\ output = AscOutput
    /\ line_stages = NoStages
    /\ InitClient
    /\ pc = "ready"
    /\ store \in {PricerStore, {}}
    /\ disk \in {[d \in store |-> f] : f \in {CleanFiles, UnreadableFiles}}
    /\ clock = 1
    /\ available_quarters = NoIndex
    /\ cache = << >>
    /\ request = NoDate
    /\ path_taken = None
    /\ result = NoResult
    /\ last_load = "nothing"
    /\ callers = [t \in Callers |-> NewFrame]

\* pricing calls given to one client one after the other
InitRepeat == InitPricer(RepeatClaims, RepeatRuleMaps)

\* a data loader over a data directory
InitLoader ==
    /\ store \in SUBSET DirUniverse
    /\ disk = [d \in store |-> CleanFiles]
    /\ clock = 1
    /\ available_quarters = NoIndex
    /\ cache = << >>
    /\ request = NoDate
    /\ path_taken = None
    /\ result = NoResult
    /\ last_load = "nothing"
    /\ callers = [t \in Callers |-> NewFrame]
    /\ claim = MakeClaim(NoDate, "", << >>)
    /\ opsf_provider = NoProvider
    /\ mues = NoMues
    /\ output = AscOutput
    /\ line_stages = NoStages
    /\ InitClient
    /\ pc = "loader"

\* a data loader over one quarter directory whose files change
InitDisk ==
    /\ store = PricerStore
    /\ disk \in [PricerStore -> UNION {InitialFiles(d) : d \in PricerStore}]
    /\ clock = 1
    /\ available_quarters = NoIndex
    /\ cache = << >>
    /\ request = NoDate
    /\ path_taken = None
    /\ result = NoResult
    /\ last_load = "nothing"
    /\ callers = [t \in Callers |-> NewFrame]
    /\ claim = MakeClaim(NoDate, "", << >>)
    /\ opsf_provider = NoProvider
    /\ mues = NoMues
    /\ output = AscOutput
    /\ line_stages = NoStages
    /\ InitClient
    /\ pc = "loader"

NextPricer == Process

NextDisk ==
    \/ GetData(ThruDate)
    \/ Preload
    \/ NewLoader
    \/ \E d \in store : \/ \E k \in SourceKinds : Touch(d, k)
                         \/ CorruptCache(d)
                         \/ Chmod(d)

NextRepeat ==
    Process \/ \E c \in RepeatClaims, m \in RepeatRuleMaps : NextCall(c, m)

NextLoader == Preload \/ \E dt \in RequestDates : GetData(dt)

SpecPay == InitPay /\ [][NextPricer]_vars
SpecMue == InitMue /\ [][NextPricer]_vars
SpecLoader == InitLoader /\ [][NextLoader]_vars
SpecDisk == InitDisk /\ [][NextDisk]_vars

\* data.pkl as the concurrent callers may find it: none, one written from
\* the present source files, one of another cache version, one older than
\* a rate file; in a directory that can be written or not
ConcurrentFiles(path) ==
    {[CleanFiles EXCEPT !.pkl = p, !.writable = w] :
        p \in InitialPkls(path, CleanFiles), w \in BOOLEAN}
    \cup {[CleanFiles EXCEPT !.src["rates"] = SourceFile(1, 1),
                             !.pkl = Pkl(BuildFromSources(path, CleanFiles), 0)]}

\* callers that have not called get_data yet, over one quarter directory
InitConcurrent ==
    /\ claim = MakeClaim(NoDate, "", << >>)
    /\ opsf_provider = NoProvider
    /\ mues = NoMues
    /\ output = AscOutput
    /\ line_stages = NoStages
    /\ InitClient
    /\ pc = "loader"
    /\ store = PricerStore
    /\ disk \in [PricerStore ->
                    UNION {ConcurrentFiles(d) : d \in PricerStore}]
    /\ clock = 2
    /\ available_quarters = NoIndex
    /\ cache = << >>
    /\ request = NoDate
    /\ path_taken = None
    /\ result = NoResult
    /\ last_load = "nothing"
    /\ callers = [t \in Callers |-> NewFrame]

NextConcurrent ==
    \E t \in Callers, d \in store :
        \/ Enter(t, d)
        \/ CacheExists(t, d)
        \/ ReadVersion(t, d)
        \/ CompareMtimes(t, d)
        \/ ReadCache(t, d)
        \/ LoadSources(t, d)
        \/ OpenForWrite(t, d)
        \/ Dump(t, d)
        \/ Return(t, d)

SpecConcurrent == InitConcurrent /\ [][NextConcurrent]_vars
SpecSplit == InitSplit /\ [][NextPricer]_vars
SpecCap == InitCap /\ [][NextPricer]_vars
SpecPair == InitPair /\ [][NextPricer]_vars
SpecCall == InitCall /\ [][NextPricer]_vars
SpecMod == InitMod /\ [][NextPricer]_vars
SpecRepeat == InitRepeat /\ [][NextRepeat]_vars

-----------------------------------------------------------------------------
(* Properties: vocabulary *)

Min(a, b) == IF a <= b THEN a ELSE b

Done == pc = "done" /\ output.error = None

LineIndices == 1..Len(claim.lines)

\* sum of a money field (cents) over output lines i..
RECURSIVE SumField(_, _, _)
SumField(lines, field, i) ==
    IF i > Len(lines) THEN 0
    ELSE lines[i][field] + SumField(lines, field, i + 1)

NoMoney(line_out) ==
    line_out.line_payment = 0 /\ line_out.line_copayment = 0
        /\ line_out.line_total = 0

\* the billed units of claim line j, counted as at least 1
Billed(j) == IF claim.lines[j].units >= 1 THEN claim.lines[j].units ELSE 1

\* line j was payable when the line loop ended
PayableBefore(j) == line_stages.step4[j].status = "payable"

HasRule(i) == mues.given /\ claim.lines[i].hcpcs \in DOMAIN mues.rules

RuleOf(i) == mues.rules[claim.lines[i].hcpcs]

\* the payable lines with the HCPCS and the service date of line i
Bucket(i) ==
    {j \in LineIndices :
        /\ PayableBefore(j)
        /\ claim.lines[j].hcpcs = claim.lines[i].hcpcs
        /\ claim.lines[j].service_date = claim.lines[i].service_date}

RECURSIVE SumBilled(_)
SumBilled(S) ==
    IF S = {} THEN 0
    ELSE LET j == CHOOSE k \in S : TRUE IN Billed(j) + SumBilled(S \ {j})

RECURSIVE SumOutputUnits(_)
SumOutputUnits(S) ==
    IF S = {} THEN 0
    ELSE LET j == CHOOSE k \in S : TRUE
         IN  output.lines[j].units + SumOutputUnits(S \ {j})

OverLimit(i) == SumBilled(Bucket(i)) > RuleOf(i).mue_limit

\* line i is in a group an edit of the given kind applies to
InEditedGroup(i, up_to) ==
    /\ PayableBefore(i)
    /\ HasRule(i)
    /\ RuleOf(i).up_to_limit = up_to
    /\ OverLimit(i)

\* what the greedy fill leaves for line i
Allowance(i) ==
    Min(Billed(i),
        Max(0, RuleOf(i).mue_limit - SumBilled({j \in Bucket(i) : j < i})))

\* output line i was downgraded by the ancillary gate
Downgraded(i) ==
    /\ output.lines[i].status = "unprocessable"
    /\ output.lines[i].status_reason = ReasonNoSurgical

IsSurgical(i) == RefRates[claim.lines[i].hcpcs].addendum = "AA"
IsAncillary(i) == RefRates[claim.lines[i].hcpcs].addendum = "BB"

\* a payable surgical line is left after MUE enforcement
SurgicalLeft ==
    \E i \in LineIndices :
        line_stages.step5[i].status = "payable" /\ IsSurgical(i)

AllDiscountEligible ==
    \A i \in LineIndices :
        /\ output.lines[i].status = "payable"
        /\ output.lines[i].subject_to_discount
        /\ RLess(Zero, output.lines[i].adjusted_rate)

OutputRate(i) == EffectiveRate(output.lines[i], claim.lines)

\* the quarter directories of the store whose name is a date
AvailableQuarters == {e \in store : ParsesAsDate(e.name)}

QuarterStart(e) == DateNum(ParseDate(e.name))

Called == result # NoResult

-----------------------------------------------------------------------------
(* Properties of the summation *)

\* C1: after process, the claim total equals, in cents, the sum of
\* line_total over all output lines.
C1_TotalIsSumOfLineTotals ==
    Done => output.total = SumField(output.lines, "line_total", 1)

\* a priced claim of three lines with a ranked, discounted line and a paid
\* line outside the discount pool
C1_Witness ==
    /\ Done
    /\ Len(output.lines) = 3
    /\ \E i \in LineIndices : output.lines[i].discount_applied
    /\ \E i \in LineIndices :
          /\ ~output.lines[i].subject_to_discount
          /\ output.lines[i].line_total > 0

\* C2: after process, total_payment is the sum of line_payment and
\* total_copayment the sum of line_copayment over all output lines.
C2_TotalsAreSumsOfLineShares ==
    Done =>
        /\ output.total_payment = SumField(output.lines, "line_payment", 1)
        /\ output.total_copayment = SumField(output.lines, "line_copayment", 1)

\* C3: when every line of the claim is discount-eligible and there are two
\* or more, exactly one output line has discount_applied false, it has the
\* maximum effective rate, and every other line has discount_applied true.
C3_OneUndiscountedLineOfMaximumRate ==
    Done /\ Len(output.lines) >= 2 /\ AllDiscountEligible =>
        \E i \in LineIndices :
            /\ ~output.lines[i].discount_applied
            /\ \A j \in LineIndices \ {i} : output.lines[j].discount_applied
            /\ \A j \in LineIndices : RLeq(OutputRate(j), OutputRate(i))

\* three eligible lines whose last line alone has the maximum effective rate
C3_Witness ==
    /\ Done
    /\ Len(output.lines) = 3
    /\ AllDiscountEligible
    /\ ~output.lines[3].discount_applied
    /\ RLess(OutputRate(1), OutputRate(3))
    /\ RLess(OutputRate(2), OutputRate(3))
    /\ RLess(OutputRate(1), OutputRate(2))

-----------------------------------------------------------------------------
(* Properties of MUE enforcement *)

\* C4: under a line-edit rule, every line of a group of payable lines (one
\* HCPCS, one service date) whose billed units sum above the limit ends
\* denied with adjusted_rate 0, units 0 and no money; a group whose sum is
\* within the limit is left as the line loop priced it.
C4_LineEditDeniesWholeGroup ==
    Done =>
        \A i \in LineIndices :
            PayableBefore(i) /\ HasRule(i) /\ ~RuleOf(i).up_to_limit =>
                IF OverLimit(i)
                THEN /\ output.lines[i].status = "denied"
                     /\ output.lines[i].adjusted_rate = Zero
                     /\ output.lines[i].units = 0
                     /\ NoMoney(output.lines[i])
                ELSE line_stages.step5[i] = line_stages.step4[i]

\* two lines of one group, each within the limit alone, both denied
C4_Witness ==
    /\ Done
    /\ \E i, j \in LineIndices :
          /\ i < j
          /\ j \in Bucket(i)
          /\ InEditedGroup(i, FALSE)
          /\ Billed(i) <= RuleOf(i).mue_limit
          /\ Billed(j) <= RuleOf(i).mue_limit
          /\ output.lines[i].status = "denied"
          /\ output.lines[j].status = "denied"

\* C5 as stated: under a date-of-service rule, every line of a group over
\* the limit ends with units min(u_i, max(0, L - units before it)); a line
\* with allowance 0 is denied with units 0 and no money, a cut line stays
\* payable with the partial reason, and the units of the group total L.
C5_GreedyFillInFinalOutput ==
    Done =>
        \A i \in LineIndices :
            InEditedGroup(i, TRUE) =>
                /\ output.lines[i].units = Allowance(i)
                /\ Allowance(i) = 0 =>
                      /\ output.lines[i].status = "denied"
                      /\ NoMoney(output.lines[i])
                /\ 0 < Allowance(i) /\ Allowance(i) < Billed(i) =>
                      /\ output.lines[i].status = "payable"
                      /\ output.lines[i].status_reason = ReasonMuePartial
                /\ SumOutputUnits(Bucket(i)) = RuleOf(i).mue_limit

\* C5: under a date-of-service rule, in a group over the limit a line with
\* allowance 0 ends denied with units 0 and no money; a line with a positive
\* allowance that the ancillary gate does not downgrade ends payable with
\* the allowance as units (and the partial reason if it was cut), and the
\* units of such a group total the limit; a line the gate downgrades ends
\* with no money and the units field MUE enforcement left (the allowance if
\* cut, else the units it was billed with).
C5_GreedyFillOutsideTheGate ==
    Done =>
        \A i \in LineIndices :
            InEditedGroup(i, TRUE) =>
                /\ Allowance(i) = 0 =>
                      /\ output.lines[i].status = "denied"
                      /\ output.lines[i].units = 0
                      /\ NoMoney(output.lines[i])
                /\ Allowance(i) > 0 /\ ~Downgraded(i) =>
                      /\ output.lines[i].status = "payable"
                      /\ output.lines[i].units = Allowance(i)
                      /\ Allowance(i) < Billed(i) =>
                            output.lines[i].status_reason = ReasonMuePartial
                /\ Allowance(i) > 0 /\ Downgraded(i) =>
                      /\ output.lines[i].units =
                            IF Allowance(i) < Billed(i) THEN Allowance(i)
                            ELSE claim.lines[i].units
                      /\ NoMoney(output.lines[i])
                /\ (\A j \in Bucket(i) : ~Downgraded(j)) =>
                      SumOutputUnits(Bucket(i)) = RuleOf(i).mue_limit

\* limit 4 and billed units [2, 3, 1] give units [2, 2, 0]
C5_Witness ==
    /\ Done
    /\ Len(claim.lines) = 3
    /\ \A i \in LineIndices : InEditedGroup(i, TRUE) /\ Bucket(i) = LineIndices
    /\ RuleOf(1).mue_limit = 4
    /\ <<Billed(1), Billed(2), Billed(3)>> = <<2, 3, 1>>
    /\ <<output.lines[1].units, output.lines[2].units, output.lines[3].units>>
          = <<2, 2, 0>>
    /\ output.lines[2].status_reason = ReasonMuePartial
    /\ output.lines[3].status = "denied"

\* C6: MUE enforcement changes a line only if the line is payable, a rule
\* exists for its HCPCS and the payable lines of its HCPCS and service date
\* have billed units summing above the limit.
C6_MueChangesOnlyOverLimitGroups ==
    Done =>
        \A i \in LineIndices :
            line_stages.step5[i] # line_stages.step4[i] =>
                PayableBefore(i) /\ HasRule(i) /\ OverLimit(i)

\* a changed line beside an unchanged line of the same HCPCS on another
\* service date and a line that was denied before, with a rule for each
C6_Witness ==
    /\ Done
    /\ \E i, j, k \in LineIndices :
          /\ line_stages.step5[i] # line_stages.step4[i]
          /\ claim.lines[j].hcpcs = claim.lines[i].hcpcs
          /\ claim.lines[j].service_date # claim.lines[i].service_date
          /\ line_stages.step5[j] = line_stages.step4[j]
          /\ HasRule(k)
          /\ ~PayableBefore(k)
          /\ line_stages.step5[k] = line_stages.step4[k]

-----------------------------------------------------------------------------
(* Properties of the ancillary gate *)

\* C7: if no payable surgical (AA) line is left after MUE enforcement, every
\* payable ancillary (BB) line ends unprocessable with the reason citing the
\* missing surgical procedure, and a claim of BB lines only has
\* total_payment 0; if a payable AA line is left, no BB line is downgraded.
C7_AncillaryNeedsPayableSurgical ==
    Done =>
        IF SurgicalLeft
        THEN \A i \in LineIndices :
                IsAncillary(i) =>
                    /\ ~Downgraded(i)
                    /\ output.lines[i].status = line_stages.step5[i].status
        ELSE /\ \A i \in LineIndices :
                    IsAncillary(i) /\ line_stages.step5[i].status = "payable"
                        => Downgraded(i)
             /\ (\A i \in LineIndices : IsAncillary(i))
                    => output.total_payment = 0

\* a surgical line denied by MUE enforcement beside a downgraded BB line
C7_Witness ==
    /\ Done
    /\ \E i, j \in LineIndices :
          /\ IsSurgical(i)
          /\ PayableBefore(i)
          /\ line_stages.step5[i].status = "denied"
          /\ IsAncillary(j)
          /\ line_stages.step5[j].status = "payable"
          /\ Downgraded(j)

\* C8 as stated: a line downgraded by the ancillary gate ends with
\* adjusted_rate 0, units 0 and no money.
C8_DowngradedLineIsZeroed ==
    Done =>
        \A i \in LineIndices :
            Downgraded(i) =>
                /\ output.lines[i].adjusted_rate = Zero
                /\ output.lines[i].units = 0
                /\ NoMoney(output.lines[i])

\* C8: a line downgraded by the ancillary gate ends with adjusted_rate 0 and
\* no money, and with the units it had after MUE enforcement.
C8_DowngradedLineKeepsUnits ==
    Done =>
        \A i \in LineIndices :
            Downgraded(i) =>
                /\ output.lines[i].adjusted_rate = Zero
                /\ NoMoney(output.lines[i])
                /\ output.lines[i].units = line_stages.step5[i].units

\* a downgraded line that was priced at a positive rate and keeps two units
C8_Witness ==
    /\ Done
    /\ \E i \in LineIndices :
          /\ Downgraded(i)
          /\ RLess(Zero, line_stages.step5[i].adjusted_rate)
          /\ output.lines[i].units = 2

-----------------------------------------------------------------------------
(* Properties of the quarter resolution *)

\* C9: get_data for a date after the latest available quarter returns that
\* quarter's bundle, and for a date before the earliest available quarter
\* it raises FileNotFoundError, with and without a preloaded index.
C9_QuarterFallback ==
    Called /\ AvailableQuarters # {} =>
        /\ (\A e \in AvailableQuarters : QuarterStart(e) < DateNum(request))
              => \E e \in AvailableQuarters :
                    /\ \A f \in AvailableQuarters :
                          QuarterStart(f) <= QuarterStart(e)
                    /\ result # FileNotFoundError
                    /\ result.quarter = e
        /\ (\A e \in AvailableQuarters : DateNum(request) < QuarterStart(e))
              => result = FileNotFoundError

\* a preloaded loader asked for a date after its latest of several quarters
C9_Witness ==
    /\ Called
    /\ path_taken = "index"
    /\ Cardinality(AvailableQuarters) >= 2
    /\ \A e \in AvailableQuarters : QuarterStart(e) < DateNum(request)
    /\ result # FileNotFoundError

\* C10: get_data never returns the bundle of a quarter that starts after the
\* requested date, and raises FileNotFoundError whenever the store holds no
\* quarter starting at or before the date.
C10_NeverServesLaterQuarter ==
    Called =>
        /\ result # FileNotFoundError =>
              /\ result.quarter \in AvailableQuarters
              /\ QuarterStart(result.quarter) <= DateNum(request)
        /\ (\A e \in AvailableQuarters : DateNum(request) < QuarterStart(e))
              => result = FileNotFoundError

\* a bundle served from a preloaded index while the store also holds a
\* quarter that starts after the requested date
C10_Witness ==
    /\ Called
    /\ path_taken = "index"
    /\ result # FileNotFoundError
    /\ QuarterStart(result.quarter) <= DateNum(request)
    /\ \E e \in AvailableQuarters : QuarterStart(e) > DateNum(request)

-----------------------------------------------------------------------------
(* Repeated pricing calls *)

\* the inputs of the current call
CallKey == <<claim, opsf_provider, mues>>

\* C11: a pricing call that has returned, made with inputs this client
\* has priced before against the same bundle, returns the AscOutput it
\* returned then: nothing an earlier call left (device unit budget, MUE
\* groups, loader cache) changes the result.
C11_SameInputsSameOutput ==
    (pc = "done" /\ CallKey \in DOMAIN earlier)
        => output = earlier[CallKey]

\* a claim is priced again after a different claim whose device line left
\* a unit in the budget, and a code pair offset was taken in this call
C11_Witness ==
    /\ pc = "done"
    /\ CallKey \in DOMAIN earlier
    /\ calls = 2
    /\ Cardinality(DOMAIN earlier) = 2
    /\ output.error = None
    /\ \E i \in 1..Len(output.lines) : output.lines[i].code_pair_offset # Zero
    /\ \E i \in 1..Len(output.lines) :
           output.lines[i].hcpcs = "10001"
               /\ output.lines[i].code_pair_offset = Zero
    /\ \E k \in DOMAIN earlier :
           /\ k # CallKey
           /\ \E i \in 1..Len(k[1].lines) :
                  k[1].lines[i].hcpcs = "C1234" /\ k[1].lines[i].units = 2

-----------------------------------------------------------------------------
(* Device offsets and modifiers *)

\* line i of the priced claim is the scenario line: rate 100.00, device
\* offset 20.00, wage index 1.5, payable, billed with exactly the modifiers
\* mods and with no charges or charges far above the rate
ScenarioLine(i, mods) ==
    /\ Done
    /\ claim.lines[i].hcpcs = "10004"
    /\ claim.lines[i].modifiers = mods
    /\ claim.lines[i].charges \in {0, 999900}
    /\ output.wage_index = <<3, 2>>
    /\ output.lines[i].status = "payable"
    /\ output.lines[i].payment_rate = Cents(10000)

\* C12: the scenario line billed with modifier FB has adjusted_rate
\* 125.00 - 20.00 = 105.00, device_credit true and device_offset_amount
\* 20.00.
C12_FullCreditAfterWageAdjustment ==
    \A i \in LineIndices :
        ScenarioLine(i, {MOD_DEVICE_NO_COST})
            => /\ output.lines[i].adjusted_rate = Cents(10500)
               /\ output.lines[i].device_credit
               /\ output.lines[i].device_offset_amount = Cents(2000)

\* C13: the scenario line billed with modifier 73 has adjusted_rate
\* (125.00 - 20.00) x 0.5 = 52.50 and is not subject to the discount.
C13_TerminatedAfterWageAdjustment ==
    \A i \in LineIndices :
        ScenarioLine(i, {MOD_TERMINATED_PRE_ANESTHESIA})
            => /\ output.lines[i].adjusted_rate = Cents(5250)
               /\ ~output.lines[i].subject_to_discount

-----------------------------------------------------------------------------
(* Properties of the pricing call as a whole *)

Statuses == {"payable", "denied", "unprocessable", "packaged"}

OutputIndices == 1..Len(output.lines)

\* C14 as stated: every line of every AscOutput has one of the four
\* statuses.
C14_StatusIsOneOfFour ==
    pc = "done" => \A i \in OutputIndices : output.lines[i].status \in Statuses

\* C14: every output line whose HCPCS is in the bundle's rates has one of
\* the four statuses; a line whose HCPCS is in no fee schedule has the
\* status unset (empty), a zero adjusted rate and no money.
C14_StatusOfKnownCodes ==
    pc = "done" =>
        \A i \in OutputIndices :
            IF output.lines[i].hcpcs \in DOMAIN RefData.rates
            THEN output.lines[i].status \in Statuses
            ELSE /\ output.lines[i].status = ""
                 /\ output.lines[i].adjusted_rate = Zero
                 /\ NoMoney(output.lines[i])

\* a claim with a line of an unknown code before a payable line
C14_Witness ==
    /\ pc = "done"
    /\ Len(output.lines) = 2
    /\ output.lines[1].hcpcs \notin DOMAIN RefData.rates
    /\ output.lines[1].status = ""
    /\ output.lines[2].status = "payable"

\* the preconditions of a pricing call, as the caller sees them
NoProviderNoOverride ==
    ~opsf_provider.present /\ "cbsa" \notin DOMAIN claim.additional_data

NoThruDate == claim.thru_date = NoDate

NoDataForDate ==
    \A e \in AvailableQuarters : DateNum(claim.thru_date) < QuarterStart(e)

SourcesUnreadable == \E d \in DOMAIN disk : ~disk[d].readable

ExpectedError ==
    IF NoProviderNoOverride THEN "ASC01"
    ELSE IF NoThruDate THEN "ASC03"
    ELSE IF NoDataForDate THEN "ASC02"
    ELSE IF SourcesUnreadable THEN "ASC99"
    ELSE None

\* C15: a call whose claim-level precondition fails returns an AscOutput
\* with the error of the first failing check (ASC01, ASC03, ASC02, ASC99 in
\* that order), no lines and three totals of 0; a call whose preconditions
\* hold returns no error.
C15_ClaimLevelErrors ==
    pc = "done" =>
        /\ output.error = ExpectedError
        /\ output.error # None =>
              /\ output.lines = << >>
              /\ output.total_payment = 0
              /\ output.total_copayment = 0
              /\ output.total = 0

\* a claim without provider, override and thru date reports ASC01
C15_Witness ==
    /\ pc = "done"
    /\ NoProviderNoOverride
    /\ NoThruDate
    /\ Len(claim.lines) > 0
    /\ output.error = "ASC01"

\* no CBSA value from the provider and none from the override
NoCbsaDeterminable ==
    /\ ~opsf_provider.present
          \/ (opsf_provider.cbsa_wage_index_location = ""
                /\ opsf_provider.cbsa_actual_geographic_location = "")
    /\ "cbsa" \notin DOMAIN claim.additional_data
          \/ claim.additional_data["cbsa"] = ""

\* C16: when no CBSA can be determined from the provider or the override,
\* process returns an error instead of pricing the claim.
C16_NoCbsaIsAnError ==
    (pc = "done" /\ NoCbsaDeterminable) => output.error # None

\* C17: when the preconditions hold and the CBSA of the call is absent from
\* the wage index table, the claim is priced with wage index 1.0 on the
\* output and on every rated line, a message is set and error is null.
C17_WageIndexFallback ==
    (/\ pc = "done"
     /\ ExpectedError = None
     /\ SelectCbsa(claim.additional_data, opsf_provider)
            \notin DOMAIN RefData.wage_indices)
        => /\ output.error = None
           /\ output.message # None
           /\ output.wage_index = One
           /\ Len(output.lines) = Len(claim.lines)
           /\ \A i \in OutputIndices :
                 output.lines[i].hcpcs \in DOMAIN RefData.rates
                     => output.lines[i].wage_index = One
           /\ \A i \in OutputIndices :
                 (output.lines[i].status = "payable"
                     /\ output.lines[i].code_pair_offset = Zero)
                     => output.lines[i].adjusted_rate
                            = output.lines[i].payment_rate

\* a payable line priced for a CBSA that is not in the table
C17_Witness ==
    /\ pc = "done"
    /\ "cbsa" \in DOMAIN claim.additional_data
    /\ claim.additional_data["cbsa"] = "77777"
    /\ output.error = None
    /\ output.message # None
    /\ output.wage_index = One
    /\ \E i \in OutputIndices : output.lines[i].status = "payable"

-----------------------------------------------------------------------------
(* Properties of the on-disk cache *)

\* the order in which the wage index files are looked for
WageRank(f) ==
    CASE f = "year_wage_index" -> 1
      [] f = "quarter_wage" -> 2
      [] f = "year_wage" -> 3
      [] OTHER -> 4

\* the wage index file that is read among those that exist: the year
\* directory's wage_index.csv before a file of the quarter directory,
\* and that before another wage file of the year directory
WageFileRead(d) ==
    CHOOSE f \in (disk[d].wage_files \cup {None}) :
        \A g \in disk[d].wage_files : WageRank(g) >= WageRank(f)

\* the bundle built from the files as they are now
FreshBundle(d) ==
    [quarter |-> d, _cache_version |-> _CACHE_VERSION,
     wage_file |-> WageFileRead(d),
     built_from |-> [rates |-> disk[d].src["rates"].content,
                     code_pairs |-> disk[d].src["code_pairs"].content,
                     wage_index |->
                         IF WageFileRead(d) = None THEN -1
                         ELSE disk[d].src[WageFileRead(d)].content]]

\* the files the bundle is built from
FilesOfBundle(d) ==
    {"rates", "code_pairs"} \cup ({WageFileRead(d)} \cap WageKinds)

\* the files named by the cache rule: the .csv/.txt files of the quarter
\* directory and the normalized code pair file
FilesOfCacheRule(d) ==
    {"rates", "code_pairs"}
    \cup ({"quarter_wage"} \cap disk[d].wage_files)

\* data.pkl exists, carries the current version tag and is not older than
\* any file of the cache rule
CacheUsable(d) ==
    /\ disk[d].pkl.exists
    /\ disk[d].pkl.loads
    /\ disk[d].pkl.data._cache_version = _CACHE_VERSION
    /\ \A k \in FilesOfCacheRule(d) : disk[d].pkl.mtime >= disk[d].src[k].mtime

\* a get_data step that finds quarter d and does not have it in memory
GetDataLoads(d) ==
    /\ GetData(ThruDate)
    /\ FindQuarterDirectory(ThruDate, available_quarters, store) = d
    /\ d \notin DOMAIN cache

\* a step that loads quarter d from disk
LoadsFromDisk(d) == GetDataLoads(d) \/ Preload

\* C18: a step that loads a quarter from disk takes the content of data.pkl
\* if and only if data.pkl exists, carries the current version tag and is not
\* older than any .csv/.txt file of the quarter directory or the normalized
\* code pair file, and then leaves the files alone; in every other case it
\* takes the bundle built from the present source files and writes it to
\* data.pkl (when the directory can be written).
C18_CacheUsedIffValid ==
    [][\A d \in store :
          LoadsFromDisk(d) =>
              /\ (last_load' = "pickle") <=> CacheUsable(d)
              /\ last_load' = "pickle" =>
                    /\ cache'[d] = disk[d].pkl.data
                    /\ disk' = disk
              /\ last_load' # "pickle" =>
                    /\ last_load' = "sources"
                    /\ cache'[d] = FreshBundle(d)
                    /\ disk[d].writable =>
                          disk'[d].pkl = Pkl(FreshBundle(d), clock)]_vars

\* a fresh loader returned the content of a data.pkl that an earlier loader
\* had written
C18_Witness ==
    \E d \in store :
        /\ last_load = "pickle"
        /\ request = ThruDate
        /\ disk[d].pkl.mtime > 0
        /\ result = disk[d].pkl.data
        /\ cache = (d :> result)

\* C19: after any source file of the bundle (rate file, wage index file at
\* quarter or year level, code pair file) was modified later than data.pkl
\* was written, the next load of the quarter by a fresh loader takes the
\* bundle built from the present source files, never the content of
\* data.pkl, and rewrites data.pkl.
C19_NewerSourceInvalidates ==
    [][\A d \in store :
          (/\ LoadsFromDisk(d)
           /\ cache = << >>
           /\ disk[d].pkl.exists
           /\ \E k \in FilesOfBundle(d) :
                  disk[d].src[k].mtime > disk[d].pkl.mtime)
              => /\ last_load' = "sources"
                 /\ cache'[d] = FreshBundle(d)
                 /\ disk[d].writable =>
                       disk'[d].pkl = Pkl(FreshBundle(d), clock)]_vars

\* C20: a get_data step that loads a quarter from disk never raises; with a
\* data.pkl that cannot be unpickled it returns the bundle built from the
\* source files, and when data.pkl cannot be written it still returns the
\* built bundle and stores it in the loader's _cache.
C20_CacheFailuresAreHarmless ==
    [][\A d \in store :
          GetDataLoads(d) =>
              /\ ~Raised(result')
              /\ result' = cache'[d]
              /\ (disk[d].pkl.exists /\ ~disk[d].pkl.loads) =>
                    /\ last_load' = "sources"
                    /\ result' = FreshBundle(d)
              /\ (~CacheUsable(d) /\ ~disk[d].writable) =>
                    /\ result' = FreshBundle(d)
                    /\ disk' = disk]_vars

\* get_data rebuilt the bundle over a damaged data.pkl in a read-only
\* directory
C20_Witness ==
    \E d \in store :
        /\ last_load = "sources"
        /\ request = ThruDate
        /\ ~disk[d].writable
        /\ disk[d].pkl.exists
        /\ ~disk[d].pkl.loads
        /\ result = FreshBundle(d)
        /\ cache = (d :> result)

-----------------------------------------------------------------------------
(* Properties of the 80/20 split *)

\* C29: on every output line line_payment + line_copayment equals
\* line_total, and total_payment + total_copayment equals total, in cents.
C29_SplitLosesNoCent ==
    Done =>
        /\ \A i \in OutputIndices :
              output.lines[i].line_payment + output.lines[i].line_copayment
                  = output.lines[i].line_total
        /\ output.total_payment + output.total_copayment = output.total

\* a claim whose total and whose line totals are no multiples of 5 cents
C29_Witness ==
    /\ Done
    /\ Len(output.lines) = 2
    /\ output.total % 5 = 3
    /\ output.lines[1].line_total % 5 = 2
    /\ output.lines[2].line_total % 5 = 1

-----------------------------------------------------------------------------
(* Properties of the multiple-procedure reduction *)

\* the lower of the adjusted rate of output line i and its billed charges
\* divided by its units after MUE enforcement
RankingRate(i) ==
    IF claim.lines[i].charges > 0
    THEN RMin(output.lines[i].adjusted_rate,
              R(claim.lines[i].charges, 100 * output.lines[i].units))
    ELSE output.lines[i].adjusted_rate

\* the discount-eligible payable lines with positive adjusted rate
Ranked ==
    {i \in OutputIndices :
        /\ output.lines[i].status = "payable"
        /\ output.lines[i].subject_to_discount
        /\ RLess(Zero, output.lines[i].adjusted_rate)}

\* line i is ranked before line j: higher rate, or equal rate and earlier
RankedBefore(i, j) ==
    \/ RLess(RankingRate(j), RankingRate(i))
    \/ RankingRate(j) = RankingRate(i) /\ i < j

RankedFirst(i) == i \in Ranked /\ \A j \in Ranked \ {i} : RankedBefore(i, j)

\* C27: the line ranked first is allowed its rate plus half its rate for
\* each further unit, every other ranked line half its rate per unit, and a
\* payable line that is not discount-eligible its rate per unit, each rounded
\* to the cent, with the rate and the units taken after MUE enforcement.
C27_MultipleProcedureReduction ==
    Done =>
        \A i \in OutputIndices :
            /\ RankedFirst(i) =>
                  output.lines[i].line_total
                      = Quantize(RAdd(RankingRate(i),
                                      RMul(RMul(R(1, 2), RankingRate(i)),
                                           RInt(output.lines[i].units - 1))))
            /\ (i \in Ranked /\ ~RankedFirst(i)) =>
                  output.lines[i].line_total
                      = Quantize(RMul(RMul(R(1, 2), RankingRate(i)),
                                      RInt(output.lines[i].units)))
            /\ (output.lines[i].status = "payable"
                  /\ ~output.lines[i].subject_to_discount) =>
                  output.lines[i].line_total
                      = Quantize(RMul(RankingRate(i),
                                      RInt(output.lines[i].units)))

\* two ranked lines, the first billed with charges below the rate and three
\* units and capped to two units by the edit
C27_Witness ==
    /\ Done
    /\ mues.given
    /\ Len(output.lines) = 2
    /\ Ranked = {1, 2}
    /\ claim.lines[1].units = 3
    /\ output.lines[1].units = 2
    /\ claim.lines[1].charges > 0
    /\ RLess(RankingRate(1), output.lines[1].adjusted_rate)

-----------------------------------------------------------------------------
(* Properties of the order of MUE enforcement and ancillary gate *)

\* MUE enforcement denied every surgical line that the line loop left
\* payable, and there was one
MueDeniedAllSurgical ==
    /\ \E i \in LineIndices : PayableBefore(i) /\ IsSurgical(i)
    /\ \A i \in LineIndices :
          (PayableBefore(i) /\ IsSurgical(i))
              => line_stages.step5[i].status = "denied"

\* C26: when MUE enforcement denies every otherwise-payable addendum-AA line
\* of a claim, every addendum-BB line still payable after MUE enforcement
\* ends unprocessable and the three claim totals are 0.
C26_MueDenialLocksAncillary ==
    (Done /\ MueDeniedAllSurgical) =>
        /\ \A i \in LineIndices :
              (line_stages.step5[i].status = "payable" /\ IsAncillary(i))
                  => /\ output.lines[i].status = "unprocessable"
                     /\ NoMoney(output.lines[i])
        /\ output.total = 0
        /\ output.total_payment = 0
        /\ output.total_copayment = 0

\* a surgical line denied by the edit next to an ancillary line that the
\* edit left payable
C26_Witness ==
    /\ Done
    /\ MueDeniedAllSurgical
    /\ \E i \in LineIndices :
          /\ IsAncillary(i)
          /\ line_stages.step5[i].status = "payable"
          /\ Downgraded(i)

-----------------------------------------------------------------------------
(* Properties of the quarter resolution *)

\* the store holds a directory named after the quarter of the requested date
HasOwnQuarter ==
    \E e \in AvailableQuarters :
        /\ ParseDate(e.name).year = request.year
        /\ (ParseDate(e.name).month - 1) \div 3 = (request.month - 1) \div 3

\* the requested date is not after the start of the latest quarter
NotAfterLatest ==
    \E e \in AvailableQuarters : DateNum(request) <= QuarterStart(e)

\* C28: when the store has no directory for the quarter of the requested
\* date and the date is not after the start of the latest available quarter,
\* get_data raises FileNotFoundError, even if the store holds quarters that
\* start before the date.
C28_NoFallbackToEarlierQuarter ==
    (Called /\ ~HasOwnQuarter /\ NotAfterLatest) => result = FileNotFoundError

\* a date between two quarters of the store, without a directory of its own
C28_Witness ==
    /\ Called
    /\ ~HasOwnQuarter
    /\ NotAfterLatest
    /\ \E e \in AvailableQuarters : QuarterStart(e) < DateNum(request)
    /\ path_taken = "filesystem"
    /\ result = FileNotFoundError

\* every quarter directory is named YYYYMMDD and lies under its year
WellFormedStore ==
    \A e \in store : ParsesAsDate(e.name) /\ e.year_dir = NameYear(e.name)

\* C30: over a store whose quarter directories are named YYYYMMDD under
\* their year directory, the resolution through the preloaded index and the
\* resolution through the filesystem give the same directory for the
\* requested date, or none both, and get_data returns on either path the
\* bundle of that directory or raises FileNotFoundError.
C30_IndexAndFilesystemAgree ==
    (Called /\ WellFormedStore) =>
        /\ FindQuarterDirectory(request, Index(ScanAllQuarters(store)), store)
              = FindQuarterDirectory(request, NoIndex, store)
        /\ IF FindQuarterDirectory(request, NoIndex, store) = NoDir
           THEN result = FileNotFoundError
           ELSE result
                  = FreshBundle(FindQuarterDirectory(request, NoIndex, store))

\* a preloaded loader over three well-formed quarters that served the
\* quarter of the date from its index
C30_Witness ==
    /\ Called
    /\ WellFormedStore
    /\ Cardinality(store) = 3
    /\ path_taken = "index"
    /\ HasOwnQuarter
    /\ NotAfterLatest
    /\ result # FileNotFoundError
    /\ QuarterStart(result.quarter) < DateNum(request)

-----------------------------------------------------------------------------
(* Properties of the pass-through device budget *)

\* the device codes billed on the claim
DevicesOnClaim ==
    {claim.lines[i].hcpcs : i \in {j \in LineIndices :
                                      claim.lines[j].hcpcs \in StartsWithC}}

\* the lines that received a code pair offset triggered by device dev
OffsetBy(dev) == {i \in OutputIndices : output.lines[i].code_pair_device = dev}

\* the lines that received a code pair offset
OffsetLines == {i \in OutputIndices : output.lines[i].code_pair_device # ""}

\* the units of device dev billed on the claim, each line at least 1
DeviceUnitsBilled(dev) ==
    SumBilled({j \in LineIndices : claim.lines[j].hcpcs = dev})

\* the units of the budget left after the call, over all devices
RECURSIVE UnitsLeft(_, _)
UnitsLeft(dau, i) ==
    IF i > Len(dau) THEN 0 ELSE dau[i][2] + UnitsLeft(dau, i + 1)

\* the units billed for the devices of the set devs
RECURSIVE UnitsBilledOf(_)
UnitsBilledOf(devs) ==
    IF devs = {} THEN 0
    ELSE LET dev == CHOOSE d \in devs : TRUE
         IN  DeviceUnitsBilled(dev) + UnitsBilledOf(devs \ {dev})

\* C23: for each device the lines offset by it are at most its billed
\* units; of two lines of one procedure code the earlier is offset first;
\* every offset takes exactly one unit from the budget, which never goes
\* below 0; device lines receive no offset.
C23_DeviceBudget ==
    Done =>
        /\ \A dev \in DevicesOnClaim :
              Cardinality(OffsetBy(dev)) <= DeviceUnitsBilled(dev)
        /\ \A i \in OffsetLines :
              output.lines[i].code_pair_device \in DevicesOnClaim
        /\ \A i \in OffsetLines : \A j \in 1..(i - 1) :
              claim.lines[j].hcpcs = claim.lines[i].hcpcs => j \in OffsetLines
        /\ \A k \in 1..Len(device_available_units) :
              device_available_units[k][2] >= 0
        /\ UnitsLeft(device_available_units, 1) + Cardinality(OffsetLines)
              = UnitsBilledOf(DevicesOnClaim)
        /\ \A i \in OutputIndices :
              claim.lines[i].hcpcs \in StartsWithC
                  => /\ output.lines[i].code_pair_device = ""
                     /\ output.lines[i].code_pair_offset = Zero

\* one unit of a device before two procedures that pair with it: the first
\* is offset and the second is not
C23_Witness ==
    /\ Done
    /\ Len(claim.lines) = 3
    /\ DevicesOnClaim = {"C1234"}
    /\ DeviceUnitsBilled("C1234") = 1
    /\ OffsetLines = {2}
    /\ claim.lines[3].hcpcs # claim.lines[2].hcpcs
    /\ claim.lines[3].hcpcs \notin StartsWithC
    /\ UnitsLeft(device_available_units, 1) = 0

\* C24: for every pair of a device code and a procedure code, at most one
\* line of the claim receives the code pair offset of that pair, whatever
\* the units billed for the device.
C24_NoPairOffsetTwice ==
    Done =>
        \A i, j \in OffsetLines :
            (/\ output.lines[i].code_pair_device
                    = output.lines[j].code_pair_device
             /\ output.lines[i].hcpcs = output.lines[j].hcpcs)
                => i = j

-----------------------------------------------------------------------------
(* Properties of the wage index file that is read *)

\* a load that has just built the bundle of quarter d from the source files
BuiltNow(d) ==
    /\ last_load = "sources"
    /\ d \in DOMAIN cache
    /\ result = cache[d]

-----------------------------------------------------------------------------
(* Properties of concurrent loads *)

\* a step in which caller t opens data.pkl of quarter d and unpickles it
ReadsCacheFile(t, d) == ReadVersion(t, d) \/ ReadCache(t, d)

\* C21: no caller reads data.pkl, in the validity check or in the load,
\* while the write of that file by another caller is in progress.
C21_NoReadDuringWrite ==
    [][\A t \in Callers, d \in store :
          ReadsCacheFile(t, d) => Writers(callers) \ {t} = {}]_vars

\* C22: under every interleaving of concurrent loads of the same quarter,
\* every caller that has returned holds a whole bundle equal to the one
\* built from the source files, and no call ends with an exception; a caller
\* that meets a partial or corrupt data.pkl rebuilds from the sources.
C22_EveryCallerGetsTheBundle ==
    \A t \in Callers, d \in store :
        /\ callers[t].pc = "done" => callers[t].ret = FreshBundle(d)
        /\ callers[t].fallback # "none" =>
               callers[t].pc \in {"build", "open_w", "dump", "store", "done"}
        /\ (callers[t].fallback # "none"
            /\ callers[t].pc \in {"open_w", "dump", "store"}) =>
               callers[t].data = FreshBundle(d)

\* a caller found data.pkl valid, met a partial file in the load because
\* another caller had truncated it in between, and returned the bundle
\* built from the sources
C22_Witness ==
    \E t \in Callers, d \in store :
        /\ callers[t].fallback = "load"
        /\ callers[t].pc = "done"
        /\ callers[t].ret = FreshBundle(d)
        /\ \A u \in Callers : callers[u].pc = "done"

====
